---- MODULE Spec2Model ----
(***************************************************************************)
(* Golden-Cross: the decision engine (src/services/aiService.ts) and the   *)
(* execution client (src/unnamed/part_000, the OKX REST service) of an     *)
(* automated ETH futures trader.                                           *)
(*                                                                         *)
(* Numbers.  The program computes on IEEE doubles parsed from the          *)
(* exchange's decimal strings.  In the model                               *)
(*   - a price string "100.07" is the integer 10007 (hundredths);          *)
(*   - a product price * 0.9995 is an integer count of 1e-6 ("micro");     *)
(*   - the moving averages are doubles, computed with the rounding of      *)
(*     each multiplication and addition of the program, since a crossover  *)
(*     is a comparison of two of them.                                     *)
(* toFixed(2) and parseFloat are conversions between these forms and are   *)
(* modelled by what they do to the value.                                  *)
(***************************************************************************)
EXTENDS Integers, Sequences, FiniteSets, TLC

VARIABLES
    marketData,     \* MarketDataCollection handed to getTradingDecision
    accountData,    \* AccountContext handed to getTradingDecision
    analysis,       \* getTradingDecision: result of analyzeStrategy (NULL before the call)
    mgmtAction,     \* getTradingDecision: result of calculateManagement, or NULL
    decision,       \* getTradingDecision: the AIDecision returned (NULL before the call)
    config,         \* AppConfig: [isSimulation]
    invocation,     \* the exported function invoked on the execution client, with its arguments
    pc,             \* the position reached inside that invocation
    locals,         \* the invocation's local variables that outlive an await
    calls,          \* every fetch() issued so far, in order, with the response it got
    outcome,        \* NULL while running; then the value returned or the Error thrown
    exchange,       \* the account on the exchange: [posMode, algos]
    emaCall,        \* the arguments of a call of calcEMA: [prices, period], or NULL
    emaResult       \* what that call returned: [emaArray] (NULL before the call)

decisionVars == <<marketData, accountData, analysis, mgmtAction, decision>>
clientVars == <<config, invocation, pc, locals, calls, outcome, exchange>>
emaVars == <<emaCall, emaResult>>
vars == <<decisionVars, clientVars, emaVars>>

NULL == [null |-> TRUE]

-----------------------------------------------------------------------------
(* Program constants *)

FAST == 15              \* calcEMA(closes, 15)
SLOW == 60              \* calcEMA(closes, 60)
MIN_CANDLES == 60       \* c1h.length < 60 || c3m.length < 60
SCAN_WINDOW == 50       \* Math.max(1, c3m.length - 50)
FRESH_CANDLES == 2      \* candlesAgo <= 2
LOOKBACK == 5           \* lookback = 5
CONTRACT_VAL_TENTHS == 1  \* CONTRACT_VAL_ETH = 0.1 (1 contract = 0.1 ETH), in tenths
INSTRUMENT_ID == "ETH-USDT-SWAP"

-----------------------------------------------------------------------------
\* 0-based indexing, as in the source
At(s, i) == s[i + 1]

Min(a, b) == IF a < b THEN a ELSE b
Max(a, b) == IF a > b THEN a ELSE b
Abs(a) == IF a < 0 THEN -a ELSE a

-----------------------------------------------------------------------------
(* Naturals of any size: little-endian limbs below Base, no leading zero   *)
(* limb; the empty sequence is zero.                                       *)

LimbBits == 14
Base == 2^LimbBits

RECURSIVE BnOfInt(_)
BnOfInt(n) == IF n = 0 THEN <<>> ELSE <<n % Base>> \o BnOfInt(n \div Base)

RECURSIVE BnTrim(_)
BnTrim(a) ==
    IF Len(a) = 0 \/ a[Len(a)] # 0 THEN a ELSE BnTrim(SubSeq(a, 1, Len(a) - 1))

RECURSIVE BnAddFrom(_, _, _, _)
BnAddFrom(a, b, i, carry) ==
    IF i > Len(a) /\ i > Len(b) THEN (IF carry = 0 THEN <<>> ELSE <<carry>>)
    ELSE LET t == (IF i <= Len(a) THEN a[i] ELSE 0)
                  + (IF i <= Len(b) THEN b[i] ELSE 0) + carry
         IN  <<t % Base>> \o BnAddFrom(a, b, i + 1, t \div Base)

BnAdd(a, b) == BnAddFrom(a, b, 1, 0)

RECURSIVE BnSubFrom(_, _, _, _)
BnSubFrom(a, b, i, borrow) ==
    IF i > Len(a) THEN <<>>
    ELSE LET t == a[i] - (IF i <= Len(b) THEN b[i] ELSE 0) - borrow
         IN  <<IF t < 0 THEN t + Base ELSE t>>
             \o BnSubFrom(a, b, i + 1, IF t < 0 THEN 1 ELSE 0)

\* a - b for a >= b
BnSub(a, b) == BnTrim(BnSubFrom(a, b, 1, 0))

RECURSIVE BnMulFrom(_, _, _, _)
BnMulFrom(a, m, i, carry) ==
    IF i > Len(a) THEN (IF carry = 0 THEN <<>> ELSE <<carry>>)
    ELSE LET t == a[i] * m + carry
         IN  <<t % Base>> \o BnMulFrom(a, m, i + 1, t \div Base)

\* a * m for a natural m below 2^16
BnMulSmall(a, m) == IF m = 0 THEN <<>> ELSE BnMulFrom(a, m, 1, 0)

\* the sum of the limb products of weight Base^(k-1)
RECURSIVE BnColumn(_, _, _, _)
BnColumn(a, b, k, i) ==
    IF i > Len(a) \/ i > k THEN 0
    ELSE (IF k + 1 - i <= Len(b) THEN a[i] * b[k + 1 - i] ELSE 0)
         + BnColumn(a, b, k, i + 1)

RECURSIVE BnMulFromColumn(_, _, _, _)
BnMulFromColumn(a, b, k, carry) ==
    IF k > Len(a) + Len(b) - 1 THEN BnOfInt(carry)
    ELSE LET t == BnColumn(a, b, k, 1) + carry
         IN  <<t % Base>> \o BnMulFromColumn(a, b, k + 1, t \div Base)

\* a * b for a and b of at most four limbs (a column then holds at most
\* four products below Base^2)
BnMul(a, b) ==
    IF a = <<>> \/ b = <<>> THEN <<>> ELSE BnMulFromColumn(a, b, 1, 0)

\* a * 2^s
BnShl(a, s) ==
    IF a = <<>> THEN <<>>
    ELSE [i \in 1..(s \div LimbBits) |-> 0] \o BnMulSmall(a, 2^(s % LimbBits))

\* a \div 2^s
BnShr(a, s) ==
    LET q == s \div LimbBits
        r == s % LimbBits
    IN  IF q >= Len(a) THEN <<>>
        ELSE BnTrim([i \in 1..(Len(a) - q) |->
                        a[i + q] \div 2^r
                        + (IF i + q < Len(a)
                           THEN (a[i + q + 1] % 2^r) * 2^(LimbBits - r) ELSE 0)])

RECURSIVE BnDivFrom(_, _, _, _)
BnDivFrom(a, d, i, rem) ==
    IF i = 0 THEN <<<<>>, rem>>
    ELSE LET t == rem * Base + a[i]
             rest == BnDivFrom(a, d, i - 1, t % d)
         IN  <<rest[1] \o <<t \div d>>, rest[2]>>

\* <<a \div d, a % d>> for 0 < d < 2^17
BnDivSmall(a, d) ==
    LET r == BnDivFrom(a, d, Len(a), 0) IN <<BnTrim(r[1]), r[2]>>

RECURSIVE BitsOf(_)
BitsOf(n) == IF n = 0 THEN 0 ELSE 1 + BitsOf(n \div 2)

\* the number of binary digits of a
BnBitLen(a) ==
    IF a = <<>> THEN 0 ELSE LimbBits * (Len(a) - 1) + BitsOf(a[Len(a)])

\* binary digit k of a, counted from 0
BnBit(a, k) ==
    IF k \div LimbBits >= Len(a) THEN 0
    ELSE (a[k \div LimbBits + 1] \div 2^(k % LimbBits)) % 2

\* a % 2^s = 0
BnLowZero(a, s) ==
    /\ \A i \in 1..Min(s \div LimbBits, Len(a)) : a[i] = 0
    /\ s \div LimbBits < Len(a) => a[s \div LimbBits + 1] % 2^(s % LimbBits) = 0

RECURSIVE BnCmpFrom(_, _, _)
BnCmpFrom(a, b, i) ==
    IF i = 0 THEN 0
    ELSE IF a[i] > b[i] THEN 1
    ELSE IF a[i] < b[i] THEN -1
    ELSE BnCmpFrom(a, b, i - 1)

\* sign of a - b
BnCmp(a, b) ==
    IF Len(a) > Len(b) THEN 1
    ELSE IF Len(a) < Len(b) THEN -1
    ELSE BnCmpFrom(a, b, Len(a))

-----------------------------------------------------------------------------
(* IEEE 754 binary64, the Number of the program, for values >= 0 in the    *)
(* normal range: [m, e] is m * 2^e with m of exactly MantBits binary       *)
(* digits, and zero has the empty m.  Every operation rounds its exact     *)
(* result to the nearest double, ties to the even one.                     *)

MantBits == 53

FZero == [m |-> <<>>, e |-> 0]

\* the double nearest to n * 2^e
FRound(n, e) ==
    LET len == BnBitLen(n)
        s == len - MantBits
        q == BnShr(n, s)
        up == /\ BnBit(n, s - 1) = 1
              /\ (~BnLowZero(n, s - 1) \/ q[1] % 2 = 1)
        r == IF up THEN BnAdd(q, <<1>>) ELSE q
    IN  IF len = 0 THEN FZero
        ELSE IF len <= MantBits
        THEN [m |-> BnShl(n, MantBits - len), e |-> e - (MantBits - len)]
        ELSE IF BnBitLen(r) > MantBits THEN [m |-> BnShr(r, 1), e |-> e + s + 1]
        ELSE [m |-> r, e |-> e + s]

\* a * b
FMul(a, b) == FRound(BnMul(a.m, b.m), a.e + b.e)

\* a + b
FAdd(a, b) ==
    IF a.m = <<>> THEN b
    ELSE IF b.m = <<>> THEN a
    ELSE LET e == Min(a.e, b.e)
         IN  FRound(BnAdd(BnShl(a.m, a.e - e), BnShl(b.m, b.e - e)), e)

\* a - b for a >= b
FSub(a, b) ==
    IF b.m = <<>> THEN a
    ELSE LET e == Min(a.e, b.e)
         IN  FRound(BnSub(BnShl(a.m, a.e - e), BnShl(b.m, b.e - e)), e)

\* n / d for naturals n and 0 < d < 2^17: the quotient to QuotientBits
\* binary places, and one place more that records a remainder
QuotientBits == 75
FDiv(n, d) ==
    LET qr == BnDivSmall(BnShl(BnOfInt(n), QuotientBits), d)
    IN  FRound(BnAdd(BnMulSmall(qr[1], 2), IF qr[2] = 0 THEN <<>> ELSE <<1>>),
               -(QuotientBits + 1))

\* sign of a - b
FCmp(a, b) ==
    IF a.m = <<>> /\ b.m = <<>> THEN 0
    ELSE IF a.m = <<>> THEN -1
    ELSE IF b.m = <<>> THEN 1
    ELSE IF a.e > b.e THEN 1
    ELSE IF a.e < b.e THEN -1
    ELSE BnCmp(a.m, b.m)

\* parseFloat of a price string of two decimals, the price in hundredths
parseFloatOf(px) == FDiv(px, 100)

RECURSIVE doublesFrom(_, _)
doublesFrom(pxs, i) ==
    IF i > Len(pxs) THEN <<>>
    ELSE <<parseFloatOf(pxs[i])>> \o doublesFrom(pxs, i + 1)

\* c.map(c => parseFloat(c.c)) on the closes of a series
doublesOf(pxs) == doublesFrom(pxs, 1)

-----------------------------------------------------------------------------
(* calcEMA: aiService.ts 6-21 *)

\* lines 15-19, the iterations for the indices lo..hi after prevEma:
\* val = prices[i] * k + prevEma * (1 - k), with rest = 1 - k.  The range
\* is run in two halves, the second from the last value of the first.
RECURSIVE EmaLoop(_, _, _, _, _, _)
EmaLoop(prices, k, rest, lo, hi, prevEma) ==
    IF lo > hi THEN <<>>
    ELSE IF lo = hi
    THEN <<FAdd(FMul(At(prices, lo), k), FMul(prevEma, rest))>>
    ELSE LET mid == (lo + hi) \div 2
             left == EmaLoop(prices, k, rest, lo, mid, prevEma)
         IN  left \o EmaLoop(prices, k, rest, mid + 1, hi, left[Len(left)])

\* an average with a warm-up: the first output is withheld
calcEMANoSeed(prices, period) ==
    LET k == FDiv(2, period + 1)
    IN  IF Len(prices) = 0 THEN <<>>
        ELSE EmaLoop(prices, k, FSub(FDiv(1, 1), k), 1, Len(prices) - 1,
                     At(prices, 0))
calcEMA(prices, period) ==
    LET k == FDiv(2, period + 1)
    IN  IF Len(prices) = 0 THEN <<>>
        ELSE <<At(prices, 0)>>
             \o EmaLoop(prices, k, FSub(FDiv(1, 1), k), 1, Len(prices) - 1,
                        At(prices, 0))

-----------------------------------------------------------------------------
(* The inputs of one cycle.  A series is a run of candles at 100.00        *)
(* followed by a tail of closes at 98.00 or 102.00, the last held for some *)
(* candles more; every candle has its high 0.13 above and its low 0.07     *)
(* below its close.                                                        *)

MaxTail == 2        \* closes that leave the base level
MaxHold == 3        \* candles for which the last close is repeated
MaxExtra == 0       \* candles beyond MIN_CANDLES

TailLevels == {9800, 10200}

candleAt(close) == [c |-> close, h |-> close + 13, l |-> close - 7]

Tails(maxLen) == UNION { [1..n -> TailLevels] : n \in 0..maxLen }

seriesOf(len, tail, hold) ==
    [i \in 1..len |->
        candleAt(IF Len(tail) = 0 \/ i <= len - Len(tail) - hold THEN 10000
                 ELSE IF i <= len - hold THEN tail[i - (len - Len(tail) - hold)]
                 ELSE tail[Len(tail)])]

SeriesLengths == (MIN_CANDLES - 1)..(MIN_CANDLES + MaxExtra)

Candles3m ==
    { seriesOf(len, tail, hold) :
        len \in SeriesLengths, tail \in Tails(MaxTail), hold \in 0..MaxHold }

Candles1H == { seriesOf(len, tail, 0) : len \in SeriesLengths, tail \in Tails(1) }

\* Series on which the two averages meet again: MIN_CANDLES candles, at
\* 100.00 up to index 52, then the closes 99.75, 99.17, 101.23, 101.33, a
\* close at or next to 98.62, and two closes more.  With the close 98.62 the
\* two averages are the same double, 100.00286102294922, at index 57.
ScanTurns == {9861, 9862, 9863}
ScanCandles ==
    { [i \in 1..MIN_CANDLES |->
        candleAt(IF i <= MIN_CANDLES - 7 THEN 10000
                 ELSE <<9975, 9917, 10123, 10133, turn, a, b>>[i - (MIN_CANDLES - 7)])] :
        turn \in ScanTurns, a \in TailLevels, b \in TailLevels }

\* every series of the short timeframe the cycles of the model read
ScannedCandles == Candles3m \cup ScanCandles

Tickers == { <<>>, <<[last |-> 10050]>> }     \* ticker: TickerData | null

Markets ==
    { [ticker |-> t, candles1H |-> c1h, candles3m |-> c3m] :
        t \in Tickers, c1h \in Candles1H, c3m \in Candles3m }

\* A position of one contract.  avgPx is in micro (an average of fills has
\* more than two decimals), upl in hundredths, slTriggerPx in hundredths
\* and optional: <<>> when the position carries none.
positionAt(instId, posSide, avgPx, upl, slTriggerPx) ==
    [instId |-> instId, posSide |-> posSide, pos |-> 1, avgPx |-> avgPx,
     upl |-> upl, slTriggerPx |-> slTriggerPx]

\* a position entered at 100.00
positionOf(instId, posSide, upl, slTriggerPx) ==
    positionAt(instId, posSide, 100000000, upl, slTriggerPx)

PosSides == {"long", "short", "net"}

TrackedPositions ==
    { positionOf(INSTRUMENT_ID, side, upl, sl) :
        side \in PosSides, upl \in {-6, 1, 6},
        sl \in {<<>>, <<9000>>, <<10000>>, <<11000>>} }

PlainPositions == { positionOf(INSTRUMENT_ID, side, 1, <<>>) : side \in PosSides }

OtherPosition == positionOf("BTC-USDT-SWAP", "long", 1, <<>>)

PositionLists ==
    {<<>>, <<OtherPosition>>}
    \cup { <<p>> : p \in TrackedPositions }
    \cup { <<OtherPosition, p>> : p \in PlainPositions }
    \cup { <<p, q>> : p \in PlainPositions, q \in PlainPositions }

Accounts ==
    { [balance |-> [availEq |-> 100000], positions |-> ps] : ps \in PositionLists }

-----------------------------------------------------------------------------
(* analyzeStrategy: aiService.ts 39-148 *)

closesOf(cs) == [i \in 1..Len(cs) |-> cs[i].c]     \* c.map(c => parseFloat(c.c))
highsOf(cs) == [i \in 1..Len(cs) |-> cs[i].h]
lowsOf(cs) == [i \in 1..Len(cs) |-> cs[i].l]

\* lines 49-56: isUpTrend = ema15_1h[idx1h] > ema60_1h[idx1h]
trendOf(closes1h) ==
    LET closes == doublesOf(closes1h)
        ema15_1h == calcEMA(closes, FAST)
        ema60_1h == calcEMA(closes, SLOW)
        idx1h == Len(closes1h) - 1
    IN  FCmp(At(ema15_1h, idx1h), At(ema60_1h, idx1h)) > 0

\* a cross detection that asks for a strict inequality before the cross
crossAtStrict(p, c, i, closes3m) ==
    IF p < 0 /\ c > 0
    THEN <<[index |-> i, type |-> "GOLDEN", price |-> At(closes3m, i)]>>
    ELSE IF p > 0 /\ c < 0
    THEN <<[index |-> i, type |-> "DEAD", price |-> At(closes3m, i)]>>
    ELSE <<>>
\* lines 78-82: the event, if any, at one index; p and c are the signs of
\* (ema15 - ema60) at i-1 and at i
crossAt(p, c, i, closes3m) ==
    IF p <= 0 /\ c > 0
    THEN <<[index |-> i, type |-> "GOLDEN", price |-> At(closes3m, i)]>>
    ELSE IF p >= 0 /\ c < 0
    THEN <<[index |-> i, type |-> "DEAD", price |-> At(closes3m, i)]>>
    ELSE <<>>

\* lines 72-83
RECURSIVE scanLoop(_, _, _, _)
scanLoop(closes3m, ema15_3m, ema60_3m, i) ==
    IF i >= Len(closes3m) THEN <<>>
    ELSE crossAt(FCmp(At(ema15_3m, i - 1), At(ema60_3m, i - 1)),
                 FCmp(At(ema15_3m, i), At(ema60_3m, i)), i, closes3m)
         \o scanLoop(closes3m, ema15_3m, ema60_3m, i + 1)

\* line 70
scanStartOf(len) == Max(1, len - SCAN_WINDOW)

\* lines 64-65: the two averages of the short timeframe
emasOf(closes3m) ==
    LET closes == doublesOf(closes3m)
    IN  [ema15_3m |-> calcEMA(closes, FAST), ema60_3m |-> calcEMA(closes, SLOW)]

\* lines 67-83: crosses
scanCrosses(closes3m, emas) ==
    scanLoop(closes3m, emas.ema15_3m, emas.ema60_3m, scanStartOf(Len(closes3m)))

\* line 90 and line 220: positions.find(p => p.instId === INSTRUMENT_ID)
RECURSIVE findPrimary(_, _)
findPrimary(positions, i) ==
    IF i > Len(positions) THEN NULL
    ELSE IF positions[i].instId = INSTRUMENT_ID THEN positions[i]
    ELSE findPrimary(positions, i + 1)

primaryPosOf(acct) == findPrimary(acct.positions, 1)

\* a freshness gate one candle wider
isFreshWithin3(candlesAgo) == candlesAgo <= FRESH_CANDLES + 1

\* line 110
isFresh(candlesAgo) == candlesAgo <= FRESH_CANDLES

\* lines 117-120; Number.MAX_VALUE exceeds every price
NumberMax == 2^30
RECURSIVE minLowLoop(_, _, _, _)
minLowLoop(lows3m, i, last, minLow) ==
    IF i > last THEN minLow
    ELSE minLowLoop(lows3m, i + 1, last,
                    IF At(lows3m, i) < minLow THEN At(lows3m, i) ELSE minLow)

\* lines 130-133; Number.MIN_VALUE (5e-324) is below every positive price
RECURSIVE maxHighLoop(_, _, _, _)
maxHighLoop(highs3m, i, last, maxHigh) ==
    IF i > last THEN maxHigh
    ELSE maxHighLoop(highs3m, i + 1, last,
                     IF At(highs3m, i) > maxHigh THEN At(highs3m, i) ELSE maxHigh)

\* a long stop taken from the latest cross candle alone
longStopLastOnly(lows3m, prevCross, lastCross) ==
    At(lows3m, lastCross.index) * 9995

\* line 122: slPrice = minLow * 0.9995, in micro
longStop(lows3m, prevCross, lastCross) ==
    minLowLoop(lows3m, prevCross.index, lastCross.index, NumberMax) * 9995

\* line 135: slPrice = maxHigh * 1.0005, in micro
shortStop(highs3m, prevCross, lastCross) ==
    maxHighLoop(highs3m, prevCross.index, lastCross.index, 0) * 10005

\* lines 104-141: the entry decision, as <<action, slPrice>>
entryOf(c3m, crosses, isUpTrend) ==
    LET lastCross == crosses[Len(crosses)]
        prevCross == crosses[Len(crosses) - 1]
        candlesAgo == Len(c3m) - 1 - lastCross.index
    IN  IF ~isFresh(candlesAgo) THEN <<"HOLD", 0>>
        ELSE IF isUpTrend
        THEN IF prevCross.type = "DEAD" /\ lastCross.type = "GOLDEN"
             THEN <<"BUY", longStop(lowsOf(c3m), prevCross, lastCross)>>
             ELSE <<"HOLD", 0>>
        ELSE IF prevCross.type = "GOLDEN" /\ lastCross.type = "DEAD"
             THEN <<"SELL", shortStop(highsOf(c3m), prevCross, lastCross)>>
             ELSE <<"HOLD", 0>>

\* a reversal exit that looks at short positions only
reversalOfShort(primaryPos, isUpTrend) ==
    IF primaryPos = NULL THEN FALSE
    ELSE isUpTrend /\ primaryPos.posSide = "short"

\* a reversal exit that looks at long positions only
reversalOfLong(primaryPos, isUpTrend) ==
    IF primaryPos = NULL THEN FALSE
    ELSE ~isUpTrend /\ primaryPos.posSide = "long"

\* a reversal exit that takes every position that is not short for a long
reversalOfNotShort(primaryPos, isUpTrend) ==
    IF primaryPos = NULL THEN FALSE
    ELSE \/ isUpTrend /\ primaryPos.posSide = "short"
         \/ ~isUpTrend /\ primaryPos.posSide # "short"
\* lines 93-100: the trend-reversal exit
reversalOf(primaryPos, isUpTrend) ==
    IF primaryPos = NULL THEN FALSE
    ELSE \/ isUpTrend /\ primaryPos.posSide = "short"
         \/ ~isUpTrend /\ primaryPos.posSide = "long"

\* a data check that passes when one timeframe is long enough
dataInsufficientBoth(c1h, c3m) == Len(c1h) < MIN_CANDLES /\ Len(c3m) < MIN_CANDLES

\* line 44
dataInsufficient(c1h, c3m) == Len(c1h) < MIN_CANDLES \/ Len(c3m) < MIN_CANDLES

\* analyzeStrategy, given the trend and the scan of the two series.
\* The result carries the local crosses besides the returned fields.
strategyOf(mkt, acct, isUpTrend, crosses) ==
    LET primaryPos == primaryPosOf(acct)
        entry == IF primaryPos = NULL /\ Len(crosses) >= 2
                 THEN entryOf(mkt.candles3m, crosses, isUpTrend)
                 ELSE <<"HOLD", 0>>
    IN  IF reversalOf(primaryPos, isUpTrend)
        THEN [action |-> "CLOSE", sl |-> 0, isUpTrend |-> isUpTrend,
              reason |-> "TREND_REVERSAL", crosses |-> crosses]
        ELSE [action |-> entry[1], sl |-> entry[2], isUpTrend |-> isUpTrend,
              reason |-> IF entry[1] = "HOLD" THEN "MONITORING" ELSE "SIGNAL",
              crosses |-> crosses]

\* trendOf, emasOf and scanCrosses, evaluated once for each series of the
\* inputs
trendCache ==
    [p \in { closesOf(cs) : cs \in Candles1H } |-> trendOf(p)]
emaCache ==
    [p \in { closesOf(cs) : cs \in ScannedCandles } |-> emasOf(p)]
crossCache ==
    [p \in { closesOf(cs) : cs \in ScannedCandles } |-> scanCrosses(p, emaCache[p])]

analyzeStrategy(mkt, acct) ==
    IF dataInsufficient(mkt.candles1H, mkt.candles3m)
    THEN [action |-> "HOLD", sl |-> 0, isUpTrend |-> FALSE,
          reason |-> "DATA_INSUFFICIENT", crosses |-> <<>>]
    ELSE strategyOf(mkt, acct, trendCache[closesOf(mkt.candles1H)],
                    crossCache[closesOf(mkt.candles3m)])

-----------------------------------------------------------------------------
(* calculateManagement: aiService.ts 151-206.  Values are in micro; the   *)
(* estimated mark price avgPx + upl / (pos * CONTRACT_VAL_ETH) is the      *)
(* fraction markNum / markDen of micro (pos > 0).  The entry prices of the *)
(* model are multiples of 0.002, so that entryPx * 0.005 and               *)
(* entryPx * 0.0005 are whole numbers of micro.                            *)

toMicro(px) == px * 10000

\* toFixed(2): the nearest hundredth of a value in micro
toFixed2(micro) == (micro + 5000) \div 10000

\* line 155: parseFloat(pos.slTriggerPx || "0")
currentSLOf(position) ==
    IF position.slTriggerPx = <<>> THEN 0 ELSE position.slTriggerPx[1]

markNum(position) ==
    position.avgPx * position.pos * CONTRACT_VAL_TENTHS + 100000 * position.upl
markDen(position) == position.pos * CONTRACT_VAL_TENTHS

\* markPx > v and markPx < v for v in micro
markAbove(position, v) == markNum(position) > v * markDen(position)
markBelow(position, v) == markNum(position) < v * markDen(position)

\* line 159 without the slice: the whole series
recentCandlesAll(c3m) == c3m
\* line 159: c3m.slice(-lookback)
recentCandlesOf(c3m) == SubSeq(c3m, Max(1, Len(c3m) - LOOKBACK + 1), Len(c3m))

RECURSIVE seqMin(_, _)
seqMin(xs, i) ==
    IF i = Len(xs) THEN xs[i] ELSE Min(xs[i], seqMin(xs, i + 1))
RECURSIVE seqMax(_, _)
seqMax(xs, i) ==
    IF i = Len(xs) THEN xs[i] ELSE Max(xs[i], seqMax(xs, i + 1))

\* lines 165-183 with a breakeven test that takes an absent stop as 0 but
\* not as a stop below the entry
manageLongStopSet(position, recentCandles) ==
    LET entryPx == position.avgPx
        currentSL == toMicro(currentSLOf(position))
        dist == position.avgPx \div 200
    IN  IF markAbove(position, entryPx + dist)
           /\ currentSL < entryPx /\ currentSL > 0
        THEN <<entryPx, "BREAKEVEN">>
        ELSE IF Len(recentCandles) = 0 THEN <<0, "">>
        ELSE LET recentLow == seqMin(lowsOf(recentCandles), 1)
                 trailSL == recentLow * 9995
             IN  IF trailSL > currentSL /\ trailSL > entryPx
                    /\ markAbove(position, trailSL)
                 THEN <<trailSL, "TRAILING">>
                 ELSE <<0, "">>
\* lines 165-183 with a trailing test that does not compare the candidate
\* with the entry
manageLongBelowEntry(position, recentCandles) ==
    LET entryPx == position.avgPx
        currentSL == toMicro(currentSLOf(position))
        dist == position.avgPx \div 200
    IN  IF markAbove(position, entryPx + dist) /\ currentSL < entryPx
        THEN <<entryPx, "BREAKEVEN">>
        ELSE IF Len(recentCandles) = 0 THEN <<0, "">>
        ELSE LET recentLow == seqMin(lowsOf(recentCandles), 1)
                 trailSL == recentLow * 9995
             IN  IF trailSL > currentSL /\ markAbove(position, trailSL)
                 THEN <<trailSL, "TRAILING">>
                 ELSE <<0, "">>
\* lines 165-183 with a trailing test that does not compare the candidate
\* with the current stop
manageLongAnyTrail(position, recentCandles) ==
    LET entryPx == position.avgPx
        currentSL == toMicro(currentSLOf(position))
        dist == position.avgPx \div 200
    IN  IF markAbove(position, entryPx + dist) /\ currentSL < entryPx
        THEN <<entryPx, "BREAKEVEN">>
        ELSE IF Len(recentCandles) = 0 THEN <<0, "">>
        ELSE LET recentLow == seqMin(lowsOf(recentCandles), 1)
                 trailSL == recentLow * 9995
             IN  IF trailSL > entryPx /\ markAbove(position, trailSL)
                 THEN <<trailSL, "TRAILING">>
                 ELSE <<0, "">>
\* lines 165-183: the long branch, as <<newSL, reason>>
manageLong(position, recentCandles) ==
    LET entryPx == position.avgPx
        currentSL == toMicro(currentSLOf(position))
        dist == position.avgPx \div 200                 \* entryPx * 0.005
    IN  IF markAbove(position, entryPx + dist) /\ currentSL < entryPx
        THEN <<entryPx, "BREAKEVEN">>
        ELSE IF Len(recentCandles) = 0 THEN <<0, "">>   \* Math.min() = Infinity
        ELSE LET recentLow == seqMin(lowsOf(recentCandles), 1)
                 trailSL == recentLow * 9995
             IN  IF trailSL > currentSL /\ trailSL > entryPx
                    /\ markAbove(position, trailSL)
                 THEN <<trailSL, "TRAILING">>
                 ELSE <<0, "">>

\* lines 185-200: the short branch
manageShort(position, recentCandles) ==
    LET entryPx == position.avgPx
        currentSL == toMicro(currentSLOf(position))
        dist == position.avgPx \div 200
    IN  IF markBelow(position, entryPx - dist)
           /\ (currentSL > entryPx \/ currentSL = 0)
        THEN <<entryPx, "BREAKEVEN">>
        ELSE IF Len(recentCandles) = 0 THEN <<0, "">>   \* Math.max() = -Infinity
        ELSE LET recentHigh == seqMax(highsOf(recentCandles), 1)
                 trailSL == recentHigh * 10005
             IN  IF (trailSL < currentSL \/ currentSL = 0) /\ trailSL < entryPx
                    /\ markBelow(position, trailSL)
                 THEN <<trailSL, "TRAILING">>
                 ELSE <<0, "">>

\* line 202 with >= in place of >
changesEnoughOrEqual(newSL, currentSL, avgPx) ==
    newSL > 0 /\ Abs(newSL - currentSL) >= avgPx \div 2000
\* line 202: the minimum-change filter
changesEnough(newSL, currentSL, avgPx) ==
    newSL > 0 /\ Abs(newSL - currentSL) > avgPx \div 2000   \* entryPx * 0.0005

\* lines 151-206 with the trailing branch also taken when the first
\* proposal does not pass the minimum-change filter
calculateManagementFallThrough(position, c3m) ==
    IF position = NULL THEN NULL
    ELSE LET recentCandles == recentCandlesOf(c3m)
             currentSL == toMicro(currentSLOf(position))
             first == IF position.posSide = "long"
                      THEN manageLong(position, recentCandles)
                      ELSE IF position.posSide = "short"
                      THEN manageShort(position, recentCandles)
                      ELSE <<0, "">>
             lowSL == seqMin(lowsOf(recentCandles), 1) * 9995
             highSL == seqMax(highsOf(recentCandles), 1) * 10005
             trail == IF Len(recentCandles) = 0 THEN <<0, "">>
                      ELSE IF position.posSide = "long" /\ lowSL > currentSL
                              /\ lowSL > position.avgPx /\ markAbove(position, lowSL)
                      THEN <<lowSL, "TRAILING">>
                      ELSE IF position.posSide = "short"
                              /\ (highSL < currentSL \/ currentSL = 0)
                              /\ highSL < position.avgPx /\ markBelow(position, highSL)
                      THEN <<highSL, "TRAILING">>
                      ELSE <<0, "">>
             proposal == IF changesEnough(first[1], currentSL, position.avgPx)
                         THEN first ELSE trail
         IN  IF changesEnough(proposal[1], currentSL, position.avgPx)
             THEN [sl |-> toFixed2(proposal[1]), reason |-> proposal[2]]
             ELSE NULL
calculateManagement(position, c3m) ==
    IF position = NULL THEN NULL
    ELSE LET recentCandles == recentCandlesOf(c3m)
             proposal == IF position.posSide = "long"
                         THEN manageLong(position, recentCandles)
                         ELSE IF position.posSide = "short"
                         THEN manageShort(position, recentCandles)
                         ELSE <<0, "">>
         IN  IF changesEnough(proposal[1], toMicro(currentSLOf(position)),
                              position.avgPx)
             THEN [sl |-> toFixed2(proposal[1]), reason |-> proposal[2]]
             ELSE NULL

-----------------------------------------------------------------------------
(* getTradingDecision: aiService.ts 209-282 *)

\* line 222 without the test of the strategy's action
managementOfAlways(mkt, acct, result) ==
    IF primaryPosOf(acct) # NULL
    THEN calculateManagement(primaryPosOf(acct), mkt.candles3m)
    ELSE NULL
\* line 222
managementOf(mkt, acct, result) ==
    IF primaryPosOf(acct) # NULL /\ result.action = "HOLD"
    THEN calculateManagement(primaryPosOf(acct), mkt.candles3m)
    ELSE NULL

\* line 228: analysis.sl > 0 ? analysis.sl.toFixed(2) : "0"
finalSLOf(result) == IF result.sl > 0 THEN toFixed2(result.sl) ELSE 0

\* lines 240-260 without line 250, the minimum of 1 contract
sizeOfNoMinimum(avail, entry, finalSL) ==
    LET stopDist == Abs(entry - finalSL)
        size == IF stopDist > 0
                THEN (avail * 5 * 10) \div (100 * stopDist * CONTRACT_VAL_TENTHS)
                ELSE 1
    IN  IF size * CONTRACT_VAL_TENTHS * entry > avail * 20 * 10
        THEN (avail * 20 * 10) \div (CONTRACT_VAL_TENTHS * entry)
        ELSE size
\* lines 240-253 only: the risk-based size without the leverage cap
sizeOfUncapped(avail, entry, finalSL) ==
    LET stopDist == Abs(entry - finalSL)
        contracts == IF stopDist > 0
                     THEN (avail * 5 * 10) \div (100 * stopDist * CONTRACT_VAL_TENTHS)
                     ELSE 1
    IN  IF contracts < 1 THEN 1 ELSE contracts
\* lines 240-260 with a signed stop distance (no Math.abs) and without the
\* minimum of line 250
sizeOfSigned(avail, entry, finalSL) ==
    LET stopDist == entry - finalSL
        size == IF stopDist # 0
                THEN (avail * 5 * 10) \div (100 * stopDist * CONTRACT_VAL_TENTHS)
                ELSE 1
    IN  IF size * CONTRACT_VAL_TENTHS * entry > avail * 20 * 10
        THEN (avail * 20 * 10) \div (CONTRACT_VAL_TENTHS * entry)
        ELSE size
\* lines 240-260: size in contracts; avail, entry and finalSL in hundredths
sizeOf(avail, entry, finalSL) ==
    LET stopDist == Abs(entry - finalSL)
        contracts == IF stopDist > 0
                     THEN (avail * 5 * 10) \div (100 * stopDist * CONTRACT_VAL_TENTHS)
                     ELSE 1
        size == IF contracts < 1 THEN 1 ELSE contracts
    IN  IF size * CONTRACT_VAL_TENTHS * entry > avail * 20 * 10
        THEN (avail * 20 * 10) \div (CONTRACT_VAL_TENTHS * entry)
        ELSE size

\* lines 226-281 without the test of line 239: every action is sized
decisionOfAlwaysSized(mkt, acct, result, mgmt) ==
    LET finalAction == IF mgmt # NULL THEN "UPDATE_TPSL" ELSE result.action
        finalSL == IF mgmt # NULL THEN mgmt.sl ELSE finalSLOf(result)
        finalReason == IF mgmt # NULL THEN mgmt.reason ELSE result.reason
        entry == IF mkt.ticker = <<>> THEN 0 ELSE mkt.ticker[1].last
    IN  [action |-> finalAction,
         size |-> sizeOf(acct.balance.availEq, entry, finalSL), leverage |-> 10,
         profit_target |-> 0, stop_loss |-> finalSL, reasoning |-> finalReason,
         isUpTrend |-> result.isUpTrend]
\* lines 226-281
decisionOf(mkt, acct, result, mgmt) ==
    LET finalAction == IF mgmt # NULL THEN "UPDATE_TPSL" ELSE result.action
        finalSL == IF mgmt # NULL THEN mgmt.sl ELSE finalSLOf(result)
        finalReason == IF mgmt # NULL THEN mgmt.reason ELSE result.reason
        entry == IF mkt.ticker = <<>> THEN 0 ELSE mkt.ticker[1].last
        size == IF finalAction \in {"BUY", "SELL"}
                THEN sizeOf(acct.balance.availEq, entry, finalSL)
                ELSE 0
    IN  [action |-> finalAction, size |-> size, leverage |-> 10,
         profit_target |-> 0, stop_loss |-> finalSL, reasoning |-> finalReason,
         isUpTrend |-> result.isUpTrend]

getTradingDecision(mkt, acct) ==
    LET result == analyzeStrategy(mkt, acct)
    IN  decisionOf(mkt, acct, result, managementOf(mkt, acct, result))

-----------------------------------------------------------------------------
(* One evaluation cycle of the decision engine *)

ClientIdle ==
    /\ config = [isSimulation |-> TRUE]
    /\ invocation = NULL
    /\ pc = "idle"
    /\ locals = NULL
    /\ calls = <<>>
    /\ outcome = NULL
    /\ exchange = [posMode |-> "long_short_mode", algos |-> <<>>]

\* no call of calcEMA on its own
EmaIdle ==
    /\ emaCall = NULL
    /\ emaResult = NULL

InitDecision ==
    /\ marketData \in Markets
    /\ accountData \in Accounts
    /\ analysis = NULL
    /\ mgmtAction = NULL
    /\ decision = NULL
    /\ ClientIdle
    /\ EmaIdle

Decide ==
    /\ decision = NULL
    /\ analysis' = analyzeStrategy(marketData, accountData)
    /\ mgmtAction' = managementOf(marketData, accountData, analysis')
    /\ decision' = decisionOf(marketData, accountData, analysis', mgmtAction')
    /\ UNCHANGED <<marketData, accountData, clientVars, emaVars>>

SpecDecision == InitDecision /\ [][Decide]_vars

-----------------------------------------------------------------------------
(* Cycles of a position under management: the account holds one position   *)
(* of the instrument and the short timeframe holds its most recent         *)
(* candles only, so that the strategy result is Hold and the cycle is      *)
(* decided by calculateManagement, which reads the last LOOKBACK candles.  *)

\* avgPx "100.00" and "100.004", in micro
ManagedEntries == {100000000, 100004000}

\* upl in hundredths: with one contract of 0.1 ETH the estimated mark price
\* is 0.60, 0.50 or 0.10 below or above the entry
ManagedUpls == {-6, -5, -1, 1, 5, 6}

\* slTriggerPx: none, or "90.00" ... "110.00"
ManagedStops ==
    {<<>>, <<9000>>, <<9970>>, <<9990>>, <<9995>>, <<9996>>, <<10000>>, <<10004>>,
     <<10020>>, <<11000>>}

ManagedPositions ==
    { positionAt(INSTRUMENT_ID, side, avgPx, upl, sl) :
        side \in PosSides, avgPx \in ManagedEntries, upl \in ManagedUpls,
        sl \in ManagedStops }

\* closes whose candles have the lows 98.00, 99.40, 99.73, 100.07, 100.30
\* and the highs 98.20, 99.60, 99.93, 100.27, 100.50
ManagedCloses == {9807, 9947, 9980, 10014, 10037}

\* no candle, or 1, LOOKBACK or LOOKBACK + 1 candles, all alike but the
\* first or the last
ManagedCandles ==
    {<<>>} \cup
    { [i \in 1..n |-> candleAt(IF i = k THEN x ELSE y)] :
        n \in {1, LOOKBACK, LOOKBACK + 1}, k \in {1, LOOKBACK + 1},
        x \in ManagedCloses, y \in ManagedCloses }

InitManage ==
    /\ marketData \in { [ticker |-> <<>>, candles1H |-> <<>>, candles3m |-> cs] :
                          cs \in ManagedCandles }
    /\ accountData \in { [balance |-> [availEq |-> 100000], positions |-> <<p>>] :
                           p \in ManagedPositions }
    /\ analysis = NULL
    /\ mgmtAction = NULL
    /\ decision = NULL
    /\ ClientIdle
    /\ EmaIdle

SpecManage == InitManage /\ [][Decide]_vars

-----------------------------------------------------------------------------
(* Cycles that size an entry: no position is open, and the available       *)
(* equity and the last traded price range over values that make the stop   *)
(* distance zero, small and large and the notional cap bind or not.  The   *)
(* entries of these series carry the stops 97.88 (Buy) and 102.18 (Sell).  *)

\* ticker.last: no ticker, or "87.88" ... "3000.00"
SizingTickers ==
    {<<>>} \cup
    { <<[last |-> px]>> :
        px \in {8788, 9218, 9788, 9798, 9838, 10050, 10208, 10218, 10268, 10788,
                  11218, 300000} }

\* balance.availEq: "0", "1.00", "10.00", "1000.00"
SizingAvails == {0, 100, 1000, 100000}

InitSizing ==
    /\ marketData \in { [ticker |-> t, candles1H |-> c1h, candles3m |-> c3m] :
                          t \in SizingTickers, c1h \in Candles1H, c3m \in Candles3m }
    /\ accountData \in { [balance |-> [availEq |-> a], positions |-> <<>>] :
                           a \in SizingAvails }
    /\ analysis = NULL
    /\ mgmtAction = NULL
    /\ decision = NULL
    /\ ClientIdle
    /\ EmaIdle

SpecSizing == InitSizing /\ [][Decide]_vars

-----------------------------------------------------------------------------
(* Cycles on the series on which the averages meet again: no position is   *)
(* open, so that the cycle reaches the entry rule.                         *)

InitScan ==
    /\ marketData \in { [ticker |-> t, candles1H |-> c1h, candles3m |-> c3m] :
                          t \in Tickers, c1h \in Candles1H, c3m \in ScanCandles }
    /\ accountData = [balance |-> [availEq |-> 100000], positions |-> <<>>]
    /\ analysis = NULL
    /\ mgmtAction = NULL
    /\ decision = NULL
    /\ ClientIdle
    /\ EmaIdle

SpecScan == InitScan /\ [][Decide]_vars

-----------------------------------------------------------------------------
(* The execution client: src/unnamed/part_000.                             *)
(* Every fetch() is one step: the request is appended to calls together    *)
(* with the response it gets: the envelope {code, msg} with code "0", an   *)
(* envelope with another code, or a transport failure (fetch() rejects or  *)
(* the body is not JSON), which throws at the await.                       *)

MaxAlgos == 3       \* algo orders pending on the exchange before the call

Msgs == {"Position not exist", "System busy"}

okResp == [kind |-> "ok", code |-> "0", msg |-> "", applied |-> TRUE]
rejectedResp(m) == [kind |-> "rejected", code |-> "51000", msg |-> m, applied |-> FALSE]
\* a transport failure; the exchange may or may not have processed the request
netErr(applied) == [kind |-> "neterr", code |-> "", msg |-> "Failed to fetch", applied |-> applied]

\* the responses to a request without an effect the model tracks
Responses == {okResp, netErr(FALSE)} \cup { rejectedResp(m) : m \in Msgs }
\* the responses to a request that changes the exchange state of the model
EffectResponses == Responses \cup {netErr(TRUE)}

\* A decimal string: <<>> when it does not parse (parseFloat gives NaN),
\* <<n>> when it parses to n; defined is FALSE for undefined and for "".
numStr(n) == [defined |-> TRUE, num |-> <<n>>]
badStr == [defined |-> TRUE, num |-> <<>>]
noStr == [defined |-> FALSE, num |-> <<>>]

\* order.size in thousandths of a contract: "abc", "0", "0.004", "1", "1.236"
OrderSizes == {badStr, numStr(0), numStr(4), numStr(1000), numStr(1236)}
\* order.trading_decision.stop_loss in hundredths: undefined, "abc", "0",
\* "-97.88", "97.88"
OrderStops == {noStr, badStr, numStr(0), numStr(-9788), numStr(9788)}
\* order.leverage: "10" or ""
OrderLeverages == {"10", ""}

Orders ==
    { [action |-> a, size |-> sz, leverage |-> lv,
       trading_decision |-> [stop_loss |-> sl]] :
        a \in {"BUY", "SELL", "CLOSE", "HOLD", "UPDATE_TPSL"},
        sz \in OrderSizes, lv \in OrderLeverages, sl \in OrderStops }

algoOf(id, posSide, slTriggerPx, tpTriggerPx) ==
    [algoId |-> id, instId |-> INSTRUMENT_ID, posSide |-> posSide,
     slTriggerPx |-> slTriggerPx, tpTriggerPx |-> tpTriggerPx]

\* the pending conditional/OCO orders of the instrument, oldest first
AlgoLists ==
    LET all == <<algoOf(1, "long", <<9000>>, <<>>), algoOf(2, "short", <<11000>>, <<>>),
                 algoOf(3, "long", <<>>, <<10500>>)>>
    IN  { SubSeq(all, i, j) : i \in 1..2, j \in 0..Min(MaxAlgos, Len(all)) }

Exchanges ==
    { [posMode |-> m, algos |-> as] :
        m \in {"long_short_mode", "net_mode"}, as \in AlgoLists }

Invocations ==
    { [fn |-> "executeOrder", order |-> o] : o \in Orders }
    \cup { [fn |-> "updatePositionTPSL", instId |-> INSTRUMENT_ID, posSide |-> ps,
            size |-> "1", slPrice |-> sl, tpPrice |-> tp] :
            ps \in {"long", "short"}, sl \in {noStr, numStr(9788)},
            tp \in {noStr, numStr(10500)} }
    \cup { [fn |-> "addMargin",
            params |-> [instId |-> INSTRUMENT_ID, posSide |-> "long",
                        type |-> "add", amt |-> "10"]] }
    \cup { [fn |-> "fetchMarketData"], [fn |-> "fetchAccountData"] }

Return(code, msg) == [kind |-> "return", code |-> code, error |-> <<msg>>]
Throw(error) == [kind |-> "throw", code |-> "", error |-> error]

\* the envelope of a query: data is the array of a "0" response, else absent
withData(r, data) ==
    [kind |-> r.kind, code |-> r.code, msg |-> r.msg, applied |-> r.applied,
     data |-> IF r.kind = "ok" THEN data ELSE <<>>]

request(method, path, body, resp) ==
    [method |-> method, path |-> path, body |-> body, resp |-> resp]

Finish(result) == pc' = "done" /\ outcome' = result

-----------------------------------------------------------------------------
(* ensureLongShortMode: part_000 173-193, called at line 202 *)

\* line 204 and 224-229: where executeOrder goes on after the pre-step
afterPreStep(order) == IF order.action = "CLOSE" THEN "closeLong" ELSE "setLeverage"

\* lines 175-181: GET /api/v5/account/config
EnsureGetConfig ==
    /\ pc = "ensureConfig"
    /\ \E r \in Responses :
        /\ calls' = Append(calls, request("GET", "/api/v5/account/config", NULL,
                                          withData(r, <<[posMode |-> exchange.posMode]>>)))
        /\ pc' = IF r.kind = "ok" /\ exchange.posMode # "long_short_mode"
                 THEN "ensureSetMode"
                 ELSE afterPreStep(invocation.order)
    /\ UNCHANGED <<config, invocation, locals, outcome, exchange, decisionVars, emaVars>>

\* lines 183-190 without the catch of line 202: the Error of a rejected
\* set-position-mode ends executeOrder
EnsureSetModeFatal ==
    /\ pc = "ensureSetMode"
    /\ \E r \in EffectResponses :
        /\ calls' = Append(calls, request("POST", "/api/v5/account/set-position-mode",
                                          [posMode |-> "long_short_mode"], r))
        /\ exchange' = IF r.applied
                       THEN [exchange EXCEPT !.posMode = "long_short_mode"]
                       ELSE exchange
        /\ pc' = IF r.kind = "ok" THEN afterPreStep(invocation.order) ELSE "done"
        /\ outcome' = IF r.kind = "ok" THEN outcome ELSE Throw(<<"POS_MODE_FAILED", r.msg>>)
    /\ UNCHANGED <<config, invocation, locals, decisionVars, emaVars>>
\* lines 183-190: POST set-position-mode; its Error is caught at line 202
EnsureSetMode ==
    /\ pc = "ensureSetMode"
    /\ \E r \in EffectResponses :
        /\ calls' = Append(calls, request("POST", "/api/v5/account/set-position-mode",
                                          [posMode |-> "long_short_mode"], r))
        /\ exchange' = IF r.applied
                       THEN [exchange EXCEPT !.posMode = "long_short_mode"]
                       ELSE exchange
    /\ pc' = afterPreStep(invocation.order)
    /\ UNCHANGED <<config, invocation, locals, outcome, decisionVars, emaVars>>

-----------------------------------------------------------------------------
(* executeOrder: part_000 195-280 *)

\* lines 196-202 without the test of config.isSimulation
ExecuteStartLive ==
    /\ pc = "start" /\ invocation.fn = "executeOrder"
    /\ pc' = "ensureConfig"
    /\ UNCHANGED <<config, invocation, locals, calls, outcome, exchange, decisionVars, emaVars>>
\* lines 196-202
ExecuteStart ==
    /\ pc = "start" /\ invocation.fn = "executeOrder"
    /\ IF config.isSimulation
       THEN Finish(Return("0", "SIM_ORDER_OK"))
       ELSE pc' = "ensureConfig" /\ UNCHANGED outcome
    /\ UNCHANGED <<config, invocation, locals, calls, exchange, decisionVars, emaVars>>

closeBody(posSide) == [instId |-> INSTRUMENT_ID, posSide |-> posSide, mgnMode |-> "isolated"]

\* lines 208-212: what follows the response to the close-long request
afterCloseLong(r) ==
    IF r.kind = "ok" THEN [pc |-> "done", outcome |-> Return(r.code, r.msg)]
    ELSE IF r.kind = "neterr" THEN [pc |-> "done", outcome |-> Throw(<<r.msg>>)]
    ELSE [pc |-> "closeShort", outcome |-> NULL]

CloseLong ==
    /\ pc = "closeLong"
    /\ \E r \in Responses :
        /\ calls' = Append(calls, request("POST", "/api/v5/trade/close-position",
                                          closeBody("long"), r))
        /\ locals' = [jsonLong |-> r]
        /\ pc' = afterCloseLong(r).pc
        /\ outcome' = afterCloseLong(r).outcome
    /\ UNCHANGED <<config, invocation, exchange, decisionVars, emaVars>>

\* lines 215-221: what follows the response to the close-short request
afterCloseShort(jsonLong, r) ==
    IF r.kind = "ok" THEN Return(r.code, r.msg)
    ELSE IF r.kind = "neterr" THEN Throw(<<r.msg>>)
    ELSE Throw(<<"CLOSE_FAILED", jsonLong.msg, r.msg>>)

CloseShort ==
    /\ pc = "closeShort"
    /\ \E r \in Responses :
        /\ calls' = Append(calls, request("POST", "/api/v5/trade/close-position",
                                          closeBody("short"), r))
        /\ Finish(afterCloseShort(locals.jsonLong, r))
    /\ UNCHANGED <<config, invocation, locals, exchange, decisionVars, emaVars>>

\* lines 225-226
posSideOf(order) == IF order.action = "BUY" THEN "long" ELSE "short"
sideOf(order) == IF order.action = "BUY" THEN "buy" ELSE "sell"

\* lines 157-162, with line 229: order.leverage || "50"
leverageBody(order) ==
    [instId |-> INSTRUMENT_ID,
     lever |-> IF order.leverage = "" THEN "50" ELSE order.leverage,
     mgnMode |-> "isolated", posSide |-> posSideOf(order)]

\* a setLeverage that does not read the response code
afterSetLeverageUnchecked(r) ==
    IF r.kind = "neterr"
    THEN [pc |-> "done", outcome |-> Throw(<<"LEVERAGE_ERROR", r.msg>>)]
    ELSE [pc |-> "placeOrder", outcome |-> NULL]

\* lines 164-170 and 228-232: what follows the response to set-leverage
afterSetLeverage(r) ==
    IF r.kind = "ok" THEN [pc |-> "placeOrder", outcome |-> NULL]
    ELSE IF r.kind = "neterr"
    THEN [pc |-> "done", outcome |-> Throw(<<"LEVERAGE_ERROR", r.msg>>)]
    ELSE [pc |-> "done",
          outcome |-> Throw(<<"LEVERAGE_ERROR", "SET_LEVERAGE_FAILED", r.msg, r.code>>)]

\* setLeverage: part_000 153-171, called at line 229
SetLeverage ==
    /\ pc = "setLeverage"
    /\ \E r \in Responses :
        /\ calls' = Append(calls, request("POST", "/api/v5/account/set-leverage",
                                          leverageBody(invocation.order), r))
        /\ pc' = afterSetLeverage(r).pc
        /\ outcome' = afterSetLeverage(r).outcome
    /\ UNCHANGED <<config, invocation, locals, exchange, decisionVars, emaVars>>

\* lines 236-241: sizeFloat < 0.01 throws; NaN < 0.01 is false
sizeRejected(size) == size.num # <<>> /\ size.num[1] < 10

\* line 242: sizeFloat.toFixed(2), in hundredths; NaN.toFixed(2) is "NaN"
sizeStrOf(size) ==
    IF size.num = <<>> THEN badStr ELSE numStr((size.num[1] + 5) \div 10)

\* line 255 without the test parseFloat(p) > 0
cleanPriceAnyNumber(px) ==
    IF px.defined /\ px.num # <<>> THEN <<px>> ELSE <<>>
\* line 255: cleanPrice
cleanPrice(px) ==
    IF px.defined /\ px.num # <<>> /\ px.num[1] > 0 THEN <<px>> ELSE <<>>

\* lines 244-263
orderBody(order) ==
    [instId |-> INSTRUMENT_ID, tdMode |-> "isolated", side |-> sideOf(order),
     posSide |-> posSideOf(order), ordType |-> "market", sz |-> sizeStrOf(order.size),
     attachAlgoOrds |->
        IF cleanPrice(order.trading_decision.stop_loss) # <<>>
        THEN <<[slTriggerPx |-> cleanPrice(order.trading_decision.stop_loss)[1],
                slOrdPx |-> "-1"]>>
        ELSE <<>>]

\* lines 268-274: what follows the response to the order request
afterPlaceOrder(r) ==
    IF r.kind = "ok" THEN Return(r.code, r.msg)
    ELSE IF r.kind = "neterr" THEN Throw(<<r.msg>>)
    ELSE Throw(<<"ORDER_FAILED", r.msg, r.code>>)

\* lines 234-274
PlaceOrder ==
    /\ pc = "placeOrder"
    /\ IF sizeRejected(invocation.order.size)
       THEN /\ Finish(Throw(<<"INVALID_SIZE">>))
            /\ UNCHANGED calls
       ELSE \E r \in Responses :
            /\ calls' = Append(calls, request("POST", "/api/v5/trade/order",
                                              orderBody(invocation.order), r))
            /\ Finish(afterPlaceOrder(r))
    /\ UNCHANGED <<config, invocation, locals, exchange, decisionVars, emaVars>>

-----------------------------------------------------------------------------
(* updatePositionTPSL: part_000 282-334 *)

\* lines 283-286
UpdateStart ==
    /\ pc = "start" /\ invocation.fn = "updatePositionTPSL"
    /\ IF config.isSimulation
       THEN Finish(Return("0", "SIM_UPDATED"))
       ELSE pc' = "fetchAlgos" /\ UNCHANGED outcome
    /\ UNCHANGED <<config, invocation, locals, calls, exchange, decisionVars, emaVars>>

\* fetchAlgoOrders, lines 81-85: the data of a "0" envelope, else []
pendingAlgosOf(r, algos) == IF r.kind = "ok" /\ r.code = "0" THEN algos ELSE <<>>

\* a filter on the instrument alone
toCancelAnySide(pendingAlgos, instId, posSide) ==
    LET matching == SelectSeq(pendingAlgos, LAMBDA o : o.instId = instId)
    IN  [ i \in 1..Len(matching) |-> [algoId |-> matching[i].algoId, instId |-> instId] ]

\* lines 290-292
toCancelOf(pendingAlgos, instId, posSide) ==
    LET matching == SelectSeq(pendingAlgos,
                              LAMBDA o : o.instId = instId /\ o.posSide = posSide)
    IN  [ i \in 1..Len(matching) |-> [algoId |-> matching[i].algoId, instId |-> instId] ]

\* line 301
nothingNew(inv) == ~inv.slPrice.defined /\ ~inv.tpPrice.defined

\* lines 301-303 without the test of line 301
afterCancelAlwaysPlace(inv) == [pc |-> "placeAlgo", outcome |-> NULL]
\* lines 301-303: the step after the cancellation part
afterCancel(inv) ==
    IF nothingNew(inv)
    THEN [pc |-> "done", outcome |-> Return("0", "NO_NEW_TPSL")]
    ELSE [pc |-> "placeAlgo", outcome |-> NULL]

\* fetchAlgoOrders (lines 74-86) called at line 289, then lines 290-294
FetchAlgos ==
    /\ pc = "fetchAlgos"
    /\ \E r \in Responses :
        LET toCancel == toCancelOf(pendingAlgosOf(r, exchange.algos),
                                   invocation.instId, invocation.posSide)
        IN  /\ calls' = Append(calls, request("GET", "/api/v5/trade/orders-algo-pending",
                                              NULL, withData(r, exchange.algos)))
            /\ locals' = [toCancel |-> toCancel]
            /\ pc' = IF toCancel # <<>> THEN "cancelAlgos" ELSE afterCancel(invocation).pc
            /\ outcome' = IF toCancel # <<>> THEN NULL ELSE afterCancel(invocation).outcome
    /\ UNCHANGED <<config, invocation, exchange, decisionVars, emaVars>>

\* the exchange's pending list without the orders named in a cancel request
withoutAlgos(algos, toCancel) ==
    SelectSeq(algos, LAMBDA o : \A i \in 1..Len(toCancel) : toCancel[i].algoId # o.algoId)

\* lines 294-299 and 331-333: the response is awaited but never read, so
\* only a rejected fetch() ends the call
afterCancelAlgos(inv, r) ==
    IF r.kind = "neterr"
    THEN [pc |-> "done", outcome |-> Throw(<<"UPDATE_ERROR", r.msg>>)]
    ELSE afterCancel(inv)

CancelAlgos ==
    /\ pc = "cancelAlgos"
    /\ \E r \in EffectResponses :
        /\ calls' = Append(calls, request("POST", "/api/v5/trade/cancel-algos",
                                          locals.toCancel, r))
        /\ exchange' = IF r.applied
                       THEN [exchange EXCEPT !.algos = withoutAlgos(@, locals.toCancel)]
                       ELSE exchange
        /\ pc' = afterCancelAlgos(invocation, r).pc
        /\ outcome' = afterCancelAlgos(invocation, r).outcome
    /\ UNCHANGED <<config, invocation, locals, decisionVars, emaVars>>

\* lines 304-321; an absent price field is <<>>
algoBody(inv) ==
    [instId |-> inv.instId, posSide |-> inv.posSide, tdMode |-> "isolated",
     side |-> IF inv.posSide = "long" THEN "sell" ELSE "buy",
     ordType |-> "conditional", sz |-> inv.size, reduceOnly |-> TRUE,
     slTriggerPx |-> IF inv.slPrice.defined THEN <<inv.slPrice>> ELSE <<>>,
     slOrdPx |-> IF inv.slPrice.defined THEN <<"-1">> ELSE <<>>,
     tpTriggerPx |-> IF inv.tpPrice.defined THEN <<inv.tpPrice>> ELSE <<>>,
     tpOrdPx |-> IF inv.tpPrice.defined THEN <<"-1">> ELSE <<>>]

\* lines 328-332: what follows the response to the order-algo request
afterPlaceAlgo(r) ==
    IF r.kind = "ok" THEN Return("0", "TPSL_UPDATED")
    ELSE IF r.kind = "neterr" THEN Throw(<<"UPDATE_ERROR", r.msg>>)
    ELSE Throw(<<"UPDATE_ERROR", "TPSL_FAILED", r.msg>>)

\* the conditional order the exchange holds once it accepted an order-algo request
placedAlgo(body) ==
    [algoId |-> 9, instId |-> body.instId, posSide |-> body.posSide,
     slTriggerPx |-> IF body.slTriggerPx = <<>> THEN <<>> ELSE body.slTriggerPx[1].num,
     tpTriggerPx |-> IF body.tpTriggerPx = <<>> THEN <<>> ELSE body.tpTriggerPx[1].num]

\* lines 303-329
PlaceAlgo ==
    /\ pc = "placeAlgo"
    /\ \E r \in EffectResponses :
        /\ calls' = Append(calls, request("POST", "/api/v5/trade/order-algo",
                                          algoBody(invocation), r))
        /\ exchange' = IF r.applied
                       THEN [exchange EXCEPT
                               !.algos = Append(@, placedAlgo(algoBody(invocation)))]
                       ELSE exchange
        /\ Finish(afterPlaceAlgo(r))
    /\ UNCHANGED <<config, invocation, locals, decisionVars, emaVars>>

-----------------------------------------------------------------------------
(* addMargin: part_000 336-349 *)

\* line 337
MarginStart ==
    /\ pc = "start" /\ invocation.fn = "addMargin"
    /\ IF config.isSimulation
       THEN Finish(Return("0", "SIM_MARGIN_OK"))
       ELSE pc' = "marginBalance" /\ UNCHANGED outcome
    /\ UNCHANGED <<config, invocation, locals, calls, exchange, decisionVars, emaVars>>

\* lines 344-348: what follows the response to the margin-balance request
afterMargin(r) ==
    IF r.kind = "ok" THEN Return(r.code, r.msg)
    ELSE IF r.kind = "neterr" THEN Throw(<<"MARGIN_ERROR", r.msg>>)
    ELSE Throw(<<"MARGIN_ERROR", "MARGIN_FAILED", r.msg>>)

\* lines 339-345
MarginBalance ==
    /\ pc = "marginBalance"
    /\ \E r \in Responses :
        /\ calls' = Append(calls, request("POST", "/api/v5/account/position/margin-balance",
                                          invocation.params, r))
        /\ Finish(afterMargin(r))
    /\ UNCHANGED <<config, invocation, locals, exchange, decisionVars, emaVars>>

-----------------------------------------------------------------------------
(* fetchMarketData: part_000 32-72.  The five GETs are public (unsigned).  *)
(* An envelope with a code other than "0" carries an empty data array; the *)
(* result is the market-data collection, of which the model keeps only     *)
(* whether it is the mock of simulation mode or built from the responses.  *)

MarketPaths ==
    <<"/api/v5/market/ticker", "/api/v5/market/candles?bar=1H",
      "/api/v5/market/candles?bar=3m", "/api/v5/public/funding-rate",
      "/api/v5/public/open-interest">>

\* lines 33-35
MarketStart ==
    /\ pc = "start" /\ invocation.fn = "fetchMarketData"
    /\ IF config.isSimulation
       THEN Finish(Return("", "MOCK_MARKET_DATA")) /\ UNCHANGED locals
       ELSE pc' = "marketGet" /\ locals' = [step |-> 1, ticker |-> NULL]
            /\ UNCHANGED outcome
    /\ UNCHANGED <<config, invocation, calls, exchange, decisionVars, emaVars>>

\* lines 57-71: the ticker's code is read after the five responses; a
\* rejected ticker throws, and so does data[0] of an empty ticker array
afterMarketGets(ticker) ==
    IF ticker.kind = "ok" THEN Return("", "MARKET_DATA")
    ELSE Throw(<<"MARKET_ERROR", "TICKER_ERROR", ticker.msg>>)

\* lines 38-55: one GET after the other; a rejected fetch() or a body that
\* is not JSON throws at its await (caught at line 68)
MarketGet ==
    /\ pc = "marketGet"
    /\ \E r \in Responses :
        LET ticker == IF locals.step = 1 THEN r ELSE locals.ticker
        IN  /\ calls' = Append(calls, request("GET", MarketPaths[locals.step], NULL, r))
            /\ IF r.kind = "neterr"
               THEN Finish(Throw(<<"MARKET_ERROR", r.msg>>)) /\ UNCHANGED locals
               ELSE IF locals.step = Len(MarketPaths)
               THEN Finish(afterMarketGets(ticker)) /\ UNCHANGED locals
               ELSE /\ locals' = [step |-> locals.step + 1, ticker |-> ticker]
                    /\ UNCHANGED <<pc, outcome>>
    /\ UNCHANGED <<config, invocation, exchange, decisionVars, emaVars>>

-----------------------------------------------------------------------------
(* fetchAccountData: part_000 88-151 *)

\* lines 89-91
AccountStart ==
    /\ pc = "start" /\ invocation.fn = "fetchAccountData"
    /\ IF config.isSimulation
       THEN Finish(Return("", "MOCK_ACCOUNT_DATA"))
       ELSE pc' = "accountBalance" /\ UNCHANGED outcome
    /\ UNCHANGED <<config, invocation, locals, calls, exchange, decisionVars, emaVars>>

\* lines 94-97: GET balance
AccountBalance ==
    /\ pc = "accountBalance"
    /\ \E r \in Responses :
        /\ calls' = Append(calls, request("GET", "/api/v5/account/balance", NULL, r))
        /\ locals' = [balJson |-> r]
        /\ IF r.kind = "neterr"
           THEN Finish(Throw(<<"ACCOUNT_ERROR", r.msg>>))
           ELSE pc' = "accountPositions" /\ UNCHANGED outcome
    /\ UNCHANGED <<config, invocation, exchange, decisionVars, emaVars>>

\* lines 103-110: what follows the positions response; held says whether
\* the exchange reported a position
afterPositions(balJson, r, held) ==
    IF r.kind = "neterr"
    THEN [pc |-> "done", outcome |-> Throw(<<"ACCOUNT_ERROR", r.msg>>)]
    ELSE IF balJson.kind = "rejected"
    THEN [pc |-> "done",
          outcome |-> Throw(<<"ACCOUNT_ERROR", "BALANCE_ERROR", balJson.msg>>)]
    ELSE IF r.kind = "ok" /\ held
    THEN [pc |-> "accountAlgos", outcome |-> NULL]
    ELSE [pc |-> "done", outcome |-> Return("", "ACCOUNT_DATA")]

\* lines 99-102: GET positions
AccountPositions ==
    /\ pc = "accountPositions"
    /\ \E r \in Responses, held \in BOOLEAN :
        /\ r.kind # "ok" => ~held
        /\ calls' = Append(calls, request("GET", "/api/v5/account/positions", NULL,
                                          withData(r, IF held THEN <<"position">> ELSE <<>>)))
        /\ pc' = afterPositions(locals.balJson, r, held).pc
        /\ outcome' = afterPositions(locals.balJson, r, held).outcome
    /\ UNCHANGED <<config, invocation, locals, exchange, decisionVars, emaVars>>

\* line 110: fetchAlgoOrders (lines 74-86), whose failure is an empty list
AccountAlgos ==
    /\ pc = "accountAlgos"
    /\ \E r \in Responses :
        /\ calls' = Append(calls, request("GET", "/api/v5/trade/orders-algo-pending",
                                          NULL, withData(r, exchange.algos)))
        /\ Finish(Return("", "ACCOUNT_DATA"))
    /\ UNCHANGED <<config, invocation, locals, exchange, decisionVars, emaVars>>

-----------------------------------------------------------------------------
(* One invocation of an exported function of the execution client. *)

InitClient ==
    /\ marketData = NULL /\ accountData = NULL
    /\ analysis = NULL /\ mgmtAction = NULL /\ decision = NULL
    /\ config \in { [isSimulation |-> b] : b \in BOOLEAN }
    /\ invocation \in Invocations
    /\ pc = "start"
    /\ locals = NULL
    /\ calls = <<>>
    /\ outcome = NULL
    /\ exchange \in Exchanges
    /\ EmaIdle

NextClient ==
    \/ ExecuteStart
    \/ EnsureGetConfig
    \/ EnsureSetMode
    \/ CloseLong
    \/ CloseShort
    \/ SetLeverage
    \/ PlaceOrder
    \/ UpdateStart
    \/ FetchAlgos
    \/ CancelAlgos
    \/ PlaceAlgo
    \/ MarginStart
    \/ MarginBalance
    \/ MarketStart
    \/ MarketGet
    \/ AccountStart
    \/ AccountBalance
    \/ AccountPositions
    \/ AccountAlgos

SpecClient == InitClient /\ [][NextClient]_vars

-----------------------------------------------------------------------------
(* Properties of the execution client, stated over the requests issued     *)
(* (calls) and the result of the invocation (outcome).                     *)

liveCall(fn) == invocation # NULL /\ invocation.fn = fn /\ ~config.isSimulation

finished == pc = "done"

closeAt(i, posSide) ==
    calls[i].path = "/api/v5/trade/close-position" /\ calls[i].body.posSide = posSide

inError(msg) == \E k \in 1..Len(outcome.error) : outcome.error[k] = msg

\* C1: a live Close issues the close-long call and then the close-short
\* call whatever the close-long call's outcome was; it never ends, in
\* success or in failure, without the close-short call having been issued.
C1_CloseAttemptsBothDirections ==
    (liveCall("executeOrder") /\ invocation.order.action = "CLOSE" /\ finished) =>
        \E i, j \in 1..Len(calls) : i < j /\ closeAt(i, "long") /\ closeAt(j, "short")

\* C2: a Close succeeds iff one of the close-position calls returned code
\* "0"; it fails only when the long call and the short call both failed,
\* and the error then contains the message of each of the two attempts.
C2_CloseSucceedsIffEitherSucceeds ==
    (liveCall("executeOrder") /\ invocation.order.action = "CLOSE" /\ finished) =>
        LET closes == { i \in 1..Len(calls) :
                          calls[i].path = "/api/v5/trade/close-position" }
        IN  /\ outcome.kind = "return" <=> \E i \in closes : calls[i].resp.code = "0"
            /\ outcome.kind = "throw" =>
                /\ \E i, j \in closes :
                    /\ closeAt(i, "long") /\ calls[i].resp.code # "0"
                    /\ closeAt(j, "short") /\ calls[j].resp.code # "0"
                /\ \A i \in closes : inError(calls[i].resp.msg)

\* C4: on Buy or Sell every place-order call is preceded by a set-leverage
\* call for the resolved side (long for Buy, short for Sell) that returned
\* "0"; when set-leverage is rejected or fails in transport the invocation
\* has failed and holds no place-order call.
C4_LeverageBeforeOrder ==
    (liveCall("executeOrder") /\ invocation.order.action \in {"BUY", "SELL"}) =>
        LET resolved == IF invocation.order.action = "BUY" THEN "long" ELSE "short"
            orders == { j \in 1..Len(calls) : calls[j].path = "/api/v5/trade/order" }
            levers == { i \in 1..Len(calls) :
                          calls[i].path = "/api/v5/account/set-leverage" }
        IN  /\ \A j \in orders : \E i \in levers :
                /\ i < j
                /\ calls[i].body.posSide = resolved
                /\ calls[i].resp.code = "0"
            /\ \A i \in levers : calls[i].body.posSide = resolved
            /\ \A i \in levers : calls[i].resp.code # "0" =>
                /\ orders = {}
                /\ finished /\ outcome.kind = "throw"

C4_OrderPlacedAfterLeverage ==
    /\ liveCall("executeOrder") /\ invocation.order.action = "BUY"
    /\ finished /\ outcome.kind = "return"
    /\ Len(calls) >= 2
    /\ calls[Len(calls) - 1].path = "/api/v5/account/set-leverage"
    /\ calls[Len(calls)].path = "/api/v5/trade/order"

MutatingPaths ==
    {"/api/v5/account/set-leverage", "/api/v5/trade/order",
     "/api/v5/trade/close-position", "/api/v5/trade/cancel-algos",
     "/api/v5/trade/order-algo", "/api/v5/account/position/margin-balance"}

\* C6: a mutating call answered with a code other than "0" is a terminal
\* failure surfaced with the exchange's msg: the invocation throws an error
\* holding that msg, and no further request follows; the one fallback is a
\* rejected close-long, after which close-short is tried.
C6_RejectionIsTerminal ==
    \A i \in 1..Len(calls) :
        (calls[i].path \in MutatingPaths /\ calls[i].resp.kind = "rejected") =>
            \/ /\ i = Len(calls)
               /\ finished /\ outcome.kind = "throw" /\ inError(calls[i].resp.msg)
            \/ /\ closeAt(i, "long")
               /\ pc = "closeShort" \/ (i < Len(calls) /\ closeAt(i + 1, "short"))

\* order parameters that C7 calls invalid
invalidParameters(order) ==
    \/ order.size.num = <<>>
    \/ order.size.num # <<>> /\ order.size.num[1] < 10
    \/ order.trading_decision.stop_loss.defined
        /\ order.trading_decision.stop_loss.num = <<>>

\* C7: a live Buy or Sell with invalid parameters (size under 0.01
\* contracts, unparsable size or price) sends no request at all and ends
\* in failure.
C7_InvalidAbortsBeforeNetwork ==
    (liveCall("executeOrder") /\ invocation.order.action \in {"BUY", "SELL"}
        /\ invalidParameters(invocation.order)) =>
        /\ calls = <<>>
        /\ finished => outcome.kind = "throw"

-----------------------------------------------------------------------------
(* Properties of the decision engine, stated over the inputs of the cycle  *)
(* (marketData, accountData), the strategy result (analysis), the          *)
(* manager's proposal (mgmtAction) and the instruction (decision).         *)

decided == decision # NULL

enoughCandles ==
    Len(marketData.candles1H) >= 60 /\ Len(marketData.candles3m) >= 60

\* the tracked position: the first position of the tracked instrument
trackedAt == { i \in 1..Len(accountData.positions) :
                 accountData.positions[i].instId = INSTRUMENT_ID }
hasTracked == trackedAt # {}
tracked == accountData.positions[CHOOSE i \in trackedAt : \A k \in trackedAt : i <= k]

contradictsTrend ==
    /\ hasTracked
    /\ \/ tracked.posSide = "long" /\ ~analysis.isUpTrend
       \/ tracked.posSide = "short" /\ analysis.isUpTrend

lastCrossOf == analysis.crosses[Len(analysis.crosses)]
prevCrossOf == analysis.crosses[Len(analysis.crosses) - 1]

\* the latest event lies within 2 candles of the end of the series
freshPair ==
    /\ Len(analysis.crosses) >= 2
    /\ Len(marketData.candles3m) - 1 - lastCrossOf.index <= 2

buyPattern ==
    /\ analysis.isUpTrend /\ freshPair
    /\ prevCrossOf.type = "DEAD" /\ lastCrossOf.type = "GOLDEN"

sellPattern ==
    /\ ~analysis.isUpTrend /\ freshPair
    /\ prevCrossOf.type = "GOLDEN" /\ lastCrossOf.type = "DEAD"

\* C3: with 60 candles or more on both timeframes and a tracked position
\* whose side contradicts the trend, analyzeStrategy returns Close with
\* stop 0 and the cycle's instruction is that Close: no entry, no proposal
\* of the position manager, even when the short timeframe shows a fresh
\* valid entry pattern.
C3_ReversalOverrides ==
    (decided /\ enoughCandles /\ contradictsTrend) =>
        /\ analysis.action = "CLOSE" /\ analysis.sl = 0
        /\ mgmtAction = NULL
        /\ decision.action = "CLOSE" /\ decision.stop_loss = 0 /\ decision.size = 0

C3_ReversalDespiteEntryPattern ==
    /\ decided /\ enoughCandles /\ contradictsTrend
    /\ buyPattern \/ sellPattern
    /\ decision.action = "CLOSE"

\* C8: with 60 candles or more on both timeframes analyzeStrategy returns
\* Buy iff there is no tracked position, the trend is up, the scan holds
\* two events or more, the latest within 2 candles of the series end, the
\* previous Dead and the latest Golden; Sell iff the mirrored conditions
\* hold; and Hold in every other case without a trend-reversal exit.
C8_EntryIffFreshPattern ==
    (decided /\ enoughCandles) =>
        /\ analysis.action = "BUY" <=> (~hasTracked /\ buyPattern)
        /\ analysis.action = "SELL" <=> (~hasTracked /\ sellPattern)
        /\ analysis.action = "CLOSE" <=> contradictsTrend
        /\ analysis.action \in {"BUY", "SELL", "CLOSE", "HOLD"}

C8_BuyOnFreshGolden ==
    /\ decided /\ enoughCandles
    /\ analysis.action = "BUY"
    /\ Len(marketData.candles3m) - 1 - lastCrossOf.index = 2

lowOver(span) ==
    LET lows == { marketData.candles3m[i + 1].l : i \in span }
    IN  CHOOSE m \in lows : \A v \in lows : m <= v

highOver(span) ==
    LET highs == { marketData.candles3m[i + 1].h : i \in span }
    IN  CHOOSE m \in highs : \A v \in highs : m >= v

\* C9 as stated: the stop of a Buy instruction equals the lowest low from
\* the previous cross index to the latest one, times 0.9995, and the stop
\* of a Sell instruction the highest high over that span, times 1.0005.
C9_StopIsExactProduct ==
    /\ (decided /\ decision.action = "BUY") =>
        decision.stop_loss * 10000 = lowOver(prevCrossOf.index..lastCrossOf.index) * 9995
    /\ (decided /\ decision.action = "SELL") =>
        decision.stop_loss * 10000 = highOver(prevCrossOf.index..lastCrossOf.index) * 10005

\* the hundredth nearest to a value given in 1/10000 of a hundredth
nearestHundredth(v) == CHOOSE h \in 0..(v \div 10000 + 1) : 2 * Abs(h * 10000 - v) <= 10000

\* C9: the strategy's stop of a Buy is the lowest low from the previous
\* cross index to the latest one, times 0.9995, and that of a Sell the
\* highest high over that span, times 1.0005; the instruction carries
\* that value rounded to two decimal places.
C9_StopIsRoundedProduct ==
    /\ (decided /\ decision.action = "BUY") =>
        /\ analysis.sl = lowOver(prevCrossOf.index..lastCrossOf.index) * 9995
        /\ decision.stop_loss = nearestHundredth(analysis.sl)
    /\ (decided /\ decision.action = "SELL") =>
        /\ analysis.sl = highOver(prevCrossOf.index..lastCrossOf.index) * 10005
        /\ decision.stop_loss = nearestHundredth(analysis.sl)

C9_BuyWithStop ==
    /\ decided /\ decision.action = "BUY"
    /\ prevCrossOf.index < lastCrossOf.index
    /\ marketData.candles3m[prevCrossOf.index + 1].l
         < marketData.candles3m[lastCrossOf.index + 1].l
    /\ decision.stop_loss * 10000 # analysis.sl

\* C10 as stated: with fewer than 60 candles on either timeframe the
\* instruction is Hold with stop-loss "0" and size "0", with or without a
\* position.
C10_InsufficientIsHold ==
    (decided /\ ~enoughCandles) =>
        decision.action = "HOLD" /\ decision.stop_loss = 0 /\ decision.size = 0

\* C10: with fewer than 60 candles on either timeframe analyzeStrategy
\* returns Hold with stop 0 and the instruction has size "0"; the
\* instruction is Hold with stop-loss "0" unless a tracked position exists
\* and the position manager proposes a stop, and it is then
\* UpdateStopTakeProfit with the proposed stop.
C10_InsufficientIsHoldOrUpdate ==
    (decided /\ ~enoughCandles) =>
        /\ analysis.action = "HOLD" /\ analysis.sl = 0
        /\ decision.size = 0
        /\ decision.action \in {"HOLD", "UPDATE_TPSL"}
        /\ decision.action = "HOLD" => decision.stop_loss = 0
        /\ decision.action = "UPDATE_TPSL" =>
            /\ hasTracked /\ mgmtAction # NULL
            /\ decision.stop_loss = mgmtAction.sl /\ decision.stop_loss > 0
        /\ ~hasTracked => decision.action = "HOLD"

C10_UpdateWhileInsufficient ==
    /\ decided /\ ~enoughCandles
    /\ hasTracked
    /\ decision.action = "UPDATE_TPSL"

\* a long position of the tracked instrument while the long timeframe,
\* of 60 candles or more, is not in an uptrend
longInDowntrend ==
    /\ Len(marketData.candles1H) >= 60
    /\ ~trendCache[closesOf(marketData.candles1H)]
    /\ hasTracked /\ tracked.posSide = "long"

\* C11 as stated: an open long position with a long-timeframe downtrend
\* yields Close for every content and every length of the short-timeframe
\* series.
C11_LongInDowntrendCloses ==
    (decided /\ longInDowntrend) =>
        analysis.action = "CLOSE" /\ decision.action = "CLOSE"

\* C11: an open long position with a long-timeframe downtrend yields Close
\* for every content of a short-timeframe series of 60 candles or more;
\* with fewer candles the strategy result is Hold.
C11_LongInDowntrendClosesGivenData ==
    (decided /\ longInDowntrend) =>
        /\ Len(marketData.candles3m) >= 60 =>
            analysis.action = "CLOSE" /\ decision.action = "CLOSE"
        /\ Len(marketData.candles3m) < 60 => analysis.action = "HOLD"

C11_ClosedDespiteGoldenCross ==
    /\ decided /\ longInDowntrend
    /\ Len(analysis.crosses) >= 1
    /\ lastCrossOf.type = "GOLDEN"
    /\ Len(marketData.candles3m) - 1 - lastCrossOf.index <= 2
    /\ decision.action = "CLOSE"

\* what the position manager returns for the tracked position of the cycle
proposalOfCycle ==
    IF hasTracked THEN calculateManagement(tracked, marketData.candles3m) ELSE NULL

\* the instruction is UpdateStopTakeProfit iff a tracked position exists,
\* the strategy result is Hold and the manager produced a proposal, and it
\* then carries the manager's stop and rationale; the manager is not
\* consulted when the strategy returns Close, Buy or Sell
updateIffProposal ==
    /\ decision.action = "UPDATE_TPSL" <=>
        (hasTracked /\ analysis.action = "HOLD" /\ proposalOfCycle # NULL)
    /\ decision.action = "UPDATE_TPSL" =>
        /\ mgmtAction = proposalOfCycle
        /\ decision.stop_loss = proposalOfCycle.sl
        /\ decision.reasoning = proposalOfCycle.reason
    /\ analysis.action \in {"CLOSE", "BUY", "SELL"} => mgmtAction = NULL

\* C12 as stated: the aggregation rule, and in every other case the
\* strategy's action, stop and rationale pass through unchanged.
C12_PassThroughUnchanged ==
    decided =>
        /\ updateIffProposal
        /\ decision.action # "UPDATE_TPSL" =>
            /\ decision.action = analysis.action
            /\ decision.reasoning = analysis.reason
            /\ toMicro(decision.stop_loss) = analysis.sl

\* C12: the instruction is UpdateStopTakeProfit iff a tracked position
\* exists, the strategy result is Hold and the manager produced a proposal,
\* whose stop and rationale it carries; in every other case the strategy's
\* action and rationale pass through unchanged and the stop is the
\* strategy's stop rounded to the nearest hundredth; the manager is never
\* consulted when the strategy returns Close, Buy or Sell.
C12_PassThroughRounded ==
    decided =>
        /\ updateIffProposal
        /\ decision.action # "UPDATE_TPSL" =>
            /\ decision.action = analysis.action
            /\ decision.reasoning = analysis.reason
            /\ 2 * Abs(toMicro(decision.stop_loss) - analysis.sl) <= 10000

C12_UpdateCarriesProposal ==
    /\ decided /\ enoughCandles
    /\ hasTracked /\ analysis.action = "HOLD"
    /\ proposalOfCycle # NULL
    /\ decision.action = "UPDATE_TPSL"
    /\ decision.stop_loss = proposalOfCycle.sl

-----------------------------------------------------------------------------
(* Properties of the position manager, stated over the tracked position,   *)
(* the short-timeframe candles and the proposal of the cycle.  Prices of   *)
(* the position are in micro, stops and candle prices in hundredths.       *)

entryOfTracked == tracked.avgPx
stopOfTracked == toMicro(currentSLOf(tracked))
stopAbsent == tracked.slTriggerPx = <<>>

\* the mark price has moved beyond the entry by more than 0.5% of the entry
\* in the position's favour and the current stop is worse than the entry
breakevenHolds ==
    \/ /\ tracked.posSide = "long"
       /\ markAbove(tracked, entryOfTracked + entryOfTracked \div 200)
       /\ stopOfTracked < entryOfTracked
    \/ /\ tracked.posSide = "short"
       /\ markBelow(tracked, entryOfTracked - entryOfTracked \div 200)
       /\ (stopOfTracked > entryOfTracked \/ stopAbsent)

\* the entry differs from the current stop by more than 0.05% of the entry
entryFarFromStop ==
    Abs(entryOfTracked - stopOfTracked) > entryOfTracked \div 2000

\* C13 as stated: whenever the breakeven condition holds the manager
\* proposes the entry price exactly as the new stop.
C13_BreakevenProposesEntry ==
    (decided /\ hasTracked /\ breakevenHolds) =>
        /\ mgmtAction # NULL
        /\ toMicro(mgmtAction.sl) = entryOfTracked

\* C13: when the breakeven condition holds (long: mark above entry by more
\* than 0.5% and stop below entry or absent; short: mirrored) and the entry
\* differs from the current stop by more than 0.05% of the entry, the
\* manager proposes the entry price rounded to the nearest hundredth with
\* the breakeven rationale; when the difference is smaller it proposes
\* nothing; and a breakeven proposal is made only under that condition.
C13_BreakevenProposesRoundedEntry ==
    (decided /\ hasTracked) =>
        /\ (breakevenHolds /\ entryFarFromStop) =>
            /\ mgmtAction # NULL
            /\ mgmtAction.reason = "BREAKEVEN"
            /\ 2 * Abs(toMicro(mgmtAction.sl) - entryOfTracked) <= 10000
            /\ decision.action = "UPDATE_TPSL"
            /\ decision.stop_loss = mgmtAction.sl
        /\ (breakevenHolds /\ ~entryFarFromStop) => mgmtAction = NULL
        /\ (mgmtAction # NULL /\ mgmtAction.reason = "BREAKEVEN") => breakevenHolds

\* long, entry 100, mark 100.6, stop 90: proposed stop 100
C13_BreakevenExample ==
    /\ decided /\ hasTracked
    /\ tracked.posSide = "long"
    /\ entryOfTracked = 100000000
    /\ tracked.upl = 6
    /\ tracked.slTriggerPx = <<9000>>
    /\ mgmtAction # NULL
    /\ mgmtAction.sl = 10000 /\ mgmtAction.reason = "BREAKEVEN"

\* the last 5 candles of the short timeframe (all of them when fewer)
lastFive ==
    { marketData.candles3m[i] :
        i \in { k \in 1..Len(marketData.candles3m) :
                  k > Len(marketData.candles3m) - 5 } }
lowOfLastFive == CHOOSE v \in { c.l : c \in lastFive } : \A c \in lastFive : v <= c.l
highOfLastFive == CHOOSE v \in { c.h : c \in lastFive } : \A c \in lastFive : v >= c.h

\* the trailing candidate in micro: lowest low * 0.9995 for a long, highest
\* high * 1.0005 for a short
trailCandidate ==
    IF tracked.posSide = "long" THEN lowOfLastFive * 9995 ELSE highOfLastFive * 10005

\* the candidate improves on the current stop (an absent stop being the most
\* permissive bound) and lies strictly between the entry and the mark price
trailQualifies ==
    /\ lastFive # {}
    /\ \/ /\ tracked.posSide = "long"
          /\ trailCandidate > stopOfTracked
          /\ trailCandidate > entryOfTracked
          /\ markAbove(tracked, trailCandidate)
       \/ /\ tracked.posSide = "short"
          /\ (trailCandidate < stopOfTracked \/ stopAbsent)
          /\ trailCandidate < entryOfTracked
          /\ markBelow(tracked, trailCandidate)

\* C14: when the breakeven condition does not hold, a proposal is made only
\* if the candidate (lowest low of the last 5 candles * 0.9995 for a long,
\* highest high * 1.0005 for a short) improves on the current stop and lies
\* strictly between entry and mark; the proposed stop is that candidate to
\* the nearest hundredth, and a qualifying candidate that differs from the
\* current stop by more than 0.05% of the entry is proposed.
C14_TrailingCandidate ==
    (decided /\ hasTracked /\ ~breakevenHolds) =>
        /\ mgmtAction # NULL =>
            /\ trailQualifies
            /\ mgmtAction.reason = "TRAILING"
            /\ 2 * Abs(toMicro(mgmtAction.sl) - trailCandidate) <= 10000
        /\ ( /\ trailQualifies
             /\ Abs(trailCandidate - stopOfTracked) > entryOfTracked \div 2000 )
           => mgmtAction # NULL

\* a trailing proposal taken from the last 5 of 6 candles, the first of
\* which has a lower low (long) or a higher high (short)
C14_TrailsLastFiveOnly ==
    /\ decided /\ hasTracked /\ ~breakevenHolds
    /\ Len(marketData.candles3m) = 6
    /\ \/ tracked.posSide = "long" /\ marketData.candles3m[1].l < lowOfLastFive
       \/ tracked.posSide = "short" /\ marketData.candles3m[1].h > highOfLastFive
    /\ mgmtAction # NULL
    /\ mgmtAction.reason = "TRAILING"
    /\ toMicro(mgmtAction.sl) # trailCandidate

\* C15: in a cycle in which the breakeven condition holds no trailing stop
\* is proposed: the manager proposes the entry (to the nearest hundredth)
\* with the breakeven rationale or, when the minimum-change filter
\* suppresses that proposal, nothing at all, and the cycle stays Hold.
C15_BreakevenExcludesTrailing ==
    (decided /\ hasTracked /\ breakevenHolds) =>
        /\ mgmtAction # NULL =>
            /\ mgmtAction.reason = "BREAKEVEN"
            /\ 2 * Abs(toMicro(mgmtAction.sl) - entryOfTracked) <= 10000
            /\ decision.stop_loss = mgmtAction.sl
        /\ mgmtAction = NULL =>
            decision.action = "HOLD" /\ decision.stop_loss = 0

\* the breakeven proposal is suppressed by the filter while a trailing
\* candidate qualifies and would pass the filter: nothing is proposed
C15_SuppressedBreakevenNoTrailing ==
    /\ decided /\ hasTracked
    /\ breakevenHolds /\ ~entryFarFromStop
    /\ trailQualifies
    /\ Abs(trailCandidate - stopOfTracked) > entryOfTracked \div 2000
    /\ mgmtAction = NULL
    /\ decision.action = "HOLD"

\* the new stop of the cycle before it is formatted, in micro: the entry
\* under the breakeven condition, the trailing candidate otherwise
hasNewStop == breakevenHolds \/ trailQualifies
newStopOfCycle == IF breakevenHolds THEN entryOfTracked ELSE trailCandidate

\* C16: the manager emits a proposal, and the cycle becomes
\* UpdateStopTakeProfit, only if the new stop differs from the current stop
\* by more than 0.05% of the entry price; for a smaller or equal difference
\* it returns no proposal and the cycle's action stays Hold.
C16_MinimumChangeFilter ==
    (decided /\ hasTracked) =>
        /\ mgmtAction # NULL =>
            /\ hasNewStop
            /\ Abs(newStopOfCycle - stopOfTracked) > entryOfTracked \div 2000
            /\ decision.action = "UPDATE_TPSL"
        /\ ( /\ hasNewStop
             /\ Abs(newStopOfCycle - stopOfTracked) <= entryOfTracked \div 2000 )
           => mgmtAction = NULL /\ decision.action = "HOLD"

\* a new stop that differs from the current stop by exactly 0.05% of the
\* entry is not proposed
C16_EqualDifferenceSuppressed ==
    /\ decided /\ hasTracked
    /\ hasNewStop
    /\ Abs(newStopOfCycle - stopOfTracked) = entryOfTracked \div 2000
    /\ mgmtAction = NULL
    /\ decision.action = "HOLD"

\* a long with entry 100 and mark 100.1 while the lowest low of the last 5
\* candles is 98, whose candidate 98 * 0.9995 exceeds the current stop and
\* is below the mark price
exampleTrailingCase ==
    /\ hasTracked
    /\ tracked.posSide = "long"
    /\ entryOfTracked = 100000000
    /\ tracked.pos = 1 /\ tracked.upl = 1
    /\ lastFive # {}
    /\ lowOfLastFive = 9800
    /\ trailCandidate > stopOfTracked
    /\ markAbove(tracked, trailCandidate)

-----------------------------------------------------------------------------
(* Properties of the sizer, stated over the available equity, the entry    *)
(* price (the ticker's last price, 0 without a ticker) and the stop of the *)
(* instruction, all in hundredths; one contract is 0.1 ETH.                *)

isEntry == decision.action \in {"BUY", "SELL"}
availOfCycle == accountData.balance.availEq
entryOfCycle == IF marketData.ticker = <<>> THEN 0 ELSE marketData.ticker[1].last
stopDistOfCycle == Abs(entryOfCycle - decision.stop_loss)

\* floor((5% of available equity / stop distance) / 0.1) raised to 1, and 1
\* for a zero stop distance
riskSizeOfCycle ==
    IF stopDistOfCycle > 0
    THEN Max(1, (5 * availOfCycle * 10) \div (100 * stopDistOfCycle))
    ELSE 1

\* size * 0.1 * entry > available equity * 20
overCap(size) == size * entryOfCycle > availOfCycle * 20 * 10

\* C18 as stated: for every Buy or Sell instruction the size is at least 1
\* contract and is the risk-based size.
C18_SizeAtLeastOne ==
    (decided /\ isEntry) =>
        /\ decision.size >= 1
        /\ decision.size = riskSizeOfCycle

\* C18: for every Buy or Sell instruction whose risk-based size does not
\* exceed the leverage cap, the size is that risk-based size and at least 1
\* contract: floor((5% of available equity / stop distance) / contract
\* value) raised to 1, and 1 with zero stop distance; when the risk-based
\* size exceeds the cap the emitted size is smaller and can be 0.
C18_RiskSizeWithinCap ==
    (decided /\ isEntry) =>
        /\ riskSizeOfCycle >= 1
        /\ ~overCap(riskSizeOfCycle) =>
            decision.size = riskSizeOfCycle /\ decision.size >= 1
        /\ overCap(riskSizeOfCycle) =>
            decision.size < riskSizeOfCycle /\ decision.size >= 0

\* available 1000, stop distance 10: 50 contracts
C18_ExampleFiftyContracts ==
    /\ decided /\ isEntry
    /\ availOfCycle = 100000
    /\ stopDistOfCycle = 1000
    /\ decision.size = 50

\* C19: for every Buy or Sell instruction the emitted size satisfies
\* size * contract value * entry price <= available equity * 20, and when
\* the risk-based size exceeds that notional the emitted size is
\* floor(maxNotional / (contract value * entry price)).
C19_NotionalWithinCap ==
    (decided /\ isEntry) =>
        /\ ~overCap(decision.size)
        /\ overCap(riskSizeOfCycle) =>
            decision.size = (availOfCycle * 20 * 10) \div entryOfCycle

\* the risk-based size exceeds the cap and a positive capped size is emitted
C19_CappedSizeEmitted ==
    /\ decided /\ isEntry
    /\ overCap(riskSizeOfCycle)
    /\ decision.size >= 1
    /\ decision.size = (availOfCycle * 20 * 10) \div entryOfCycle
    /\ overCap(decision.size + 1)

C21_SizedOnlyOnEntry ==
    decided =>
        /\ decision.action \in {"HOLD", "CLOSE", "UPDATE_TPSL", "BUY", "SELL"}
        /\ decision.action \in {"HOLD", "CLOSE", "UPDATE_TPSL"} => decision.size = 0
        /\ (accountData.positions = <<>> /\ analysis.action = "HOLD") =>
            decision.action = "HOLD" /\ decision.size = 0

\* no open position, sufficient candles, a ticker and available equity
\* with which the sizer would give a positive size: Hold with size 0
C21_HoldWithoutPosition ==
    /\ decided /\ enoughCandles
    /\ accountData.positions = <<>>
    /\ marketData.ticker # <<>>
    /\ sizeOf(accountData.balance.availEq, marketData.ticker[1].last,
              decision.stop_loss) > 0
    /\ decision.action = "HOLD"
    /\ decision.size = 0

-----------------------------------------------------------------------------
(* Further properties of the execution client *)

\* the requests of the position-mode pre-step
preStepCalls ==
    { i \in 1..Len(calls) :
        calls[i].path \in {"/api/v5/account/config",
                           "/api/v5/account/set-position-mode"} }
preStepFailed == \E i \in preStepCalls : calls[i].resp.kind # "ok"

\* the first request of the instruction itself: close-long for Close,
\* set-leverage otherwise
isFirstOwnRequest(call, order) ==
    /\ call.method = "POST"
    /\ IF order.action = "CLOSE"
       THEN call.path = "/api/v5/trade/close-position" /\ call.body = closeBody("long")
       ELSE call.path = "/api/v5/account/set-leverage" /\ call.body = leverageBody(order)

\* C22: a failure of the position-mode pre-step (the account-config read
\* failing or throwing, or the set-position-mode call being rejected or
\* throwing) never ends executeOrder: the pre-step is over, no outcome is
\* set by it, and the next request is the instruction's own first request.
C22_PreStepFailureIsNotFatal ==
    (liveCall("executeOrder") /\ preStepFailed) =>
        /\ pc \notin {"start", "ensureConfig", "ensureSetMode"}
        /\ IF Len(calls) = Cardinality(preStepCalls)
           THEN pc = afterPreStep(invocation.order) /\ outcome = NULL
           ELSE /\ preStepCalls = 1..Cardinality(preStepCalls)
                /\ isFirstOwnRequest(calls[Cardinality(preStepCalls) + 1],
                                     invocation.order)

\* a Buy whose set-position-mode call was rejected and whose order was
\* then placed with success
C22_OrderPlacedAfterRejectedMode ==
    /\ liveCall("executeOrder") /\ finished
    /\ invocation.order.action = "BUY"
    /\ \E i \in preStepCalls :
        /\ calls[i].path = "/api/v5/account/set-position-mode"
        /\ calls[i].resp.kind = "rejected"
    /\ calls[Len(calls)].path = "/api/v5/trade/order"
    /\ outcome.kind = "return" /\ outcome.code = "0"

pathsOfCalls == { calls[i].path : i \in 1..Len(calls) }
cancelFailedInTransport ==
    \E i \in 1..Len(calls) :
        calls[i].path = "/api/v5/trade/cancel-algos" /\ calls[i].resp.kind = "neterr"

orderCalls == { i \in 1..Len(calls) : calls[i].path = "/api/v5/trade/order" }

\* the instruction's stop-loss parses to a positive number
stopIsPositive(order) ==
    /\ order.trading_decision.stop_loss.defined
    /\ order.trading_decision.stop_loss.num # <<>>
    /\ order.trading_decision.stop_loss.num[1] > 0

\* C24: the market entry order carries one attached conditional stop, whose
\* trigger price is the instruction's stop-loss and whose order price is
\* "-1" (market), iff the instruction's stop-loss parses to a positive
\* number; when it is absent, unparsable, zero or negative the order has no
\* attached algo order.
C24_StopAttachedIffPositive ==
    liveCall("executeOrder") =>
        \A i \in orderCalls :
            /\ calls[i].body.ordType = "market"
            /\ calls[i].body.attachAlgoOrds =
                 IF stopIsPositive(invocation.order)
                 THEN <<[slTriggerPx |-> invocation.order.trading_decision.stop_loss,
                         slOrdPx |-> "-1"]>>
                 ELSE <<>>

\* an entry whose stop-loss is negative is placed without an attached stop
C24_NegativeStopNotAttached ==
    /\ liveCall("executeOrder") /\ finished
    /\ invocation.order.action = "BUY"
    /\ invocation.order.trading_decision.stop_loss.num # <<>>
    /\ invocation.order.trading_decision.stop_loss.num[1] < 0
    /\ orderCalls # {}
    /\ \A i \in orderCalls : calls[i].body.attachAlgoOrds = <<>>
    /\ outcome.kind = "return"

\* the instruction's size is not a number or is below 0.01 contracts
\* (sizes are in thousandths of a contract)
sizeInvalid(order) == order.size.num = <<>> \/ order.size.num[1] < 10

\* C25: executeOrder never issues a place-order call whose size is below
\* 0.01 contracts or is not a number: such an instruction, unless it is a
\* Close, ends in failure, and every size sent is the instruction's size to
\* 2 decimal places.
C25_NoInvalidSizeSent ==
    liveCall("executeOrder") =>
        /\ \A i \in orderCalls :
            /\ ~sizeInvalid(invocation.order)
            /\ calls[i].body.sz = numStr((invocation.order.size.num[1] + 5) \div 10)
        /\ (finished /\ invocation.order.action # "CLOSE"
               /\ sizeInvalid(invocation.order)) => outcome.kind = "throw"

\* the exported operations that change exchange state
MutatingOperations == {"executeOrder", "updatePositionTPSL", "addMargin"}

\* C26: with simulation mode configured no request is issued at all: every
\* exported operation ends at its first step, without reaching setLeverage,
\* ensureLongShortMode or fetchAlgoOrders; the mutating operations return
\* a success envelope with code "0" for every instruction, and the data
\* fetches return mock data.
C26_SimulationIssuesNoCall ==
    (invocation # NULL /\ config.isSimulation) =>
        /\ calls = <<>>
        /\ pc \in {"start", "done"}
        /\ finished =>
            /\ outcome.kind = "return"
            /\ invocation.fn \in MutatingOperations => outcome.code = "0"
            /\ invocation.fn = "fetchMarketData" =>
                outcome = Return("", "MOCK_MARKET_DATA")
            /\ invocation.fn = "fetchAccountData" =>
                outcome = Return("", "MOCK_ACCOUNT_DATA")

\* a simulated Buy whose size does not parse still returns success
C26_SimulatedInvalidOrder ==
    /\ invocation # NULL /\ config.isSimulation
    /\ finished
    /\ invocation.fn = "executeOrder"
    /\ invocation.order.action = "BUY"
    /\ invocation.order.size = badStr
    /\ calls = <<>>
    /\ outcome = Return("0", "SIM_ORDER_OK")

\* no request (endpoint and body) occurs twice among the calls
eachRequestOnce ==
    \A i \in 1..Len(calls) : \A j \in 1..Len(calls) :
        (i < j /\ calls[i].path = calls[j].path) => calls[i].body # calls[j].body

\* C27: within one invocation of executeOrder or updatePositionTPSL each
\* request (endpoint plus body) is sent at most once, and a mutating call
\* that failed (rejected, or failed in transport) is the last request and
\* ends the invocation in failure; the one fallback is a rejected
\* close-long, after which close-short is tried.
C27_NoRetryFailureSurfaced ==
    (liveCall("executeOrder") \/ liveCall("updatePositionTPSL")) =>
        /\ eachRequestOnce
        /\ \A i \in 1..Len(calls) :
            (calls[i].path \in MutatingPaths /\ calls[i].resp.kind # "ok") =>
                \/ i = Len(calls) /\ finished /\ outcome.kind = "throw"
                \/ /\ closeAt(i, "long") /\ calls[i].resp.kind = "rejected"
                   /\ pc = "closeShort" \/ (i < Len(calls) /\ closeAt(i + 1, "short"))

-----------------------------------------------------------------------------
(* The crossover scan *)

\* the sign of fast[i] - slow[i] on each series of the short timeframe, at
\* position i + 1
signCache ==
    [p \in { closesOf(cs) : cs \in ScannedCandles } |->
        [i \in 1..Len(p) |->
            FCmp(emaCache[p].ema15_3m[i], emaCache[p].ema60_3m[i])]]

\* the cycle has scanned the short timeframe
scanDone ==
    /\ decision # NULL
    /\ ~dataInsufficient(marketData.candles1H, marketData.candles3m)

signAt(i) == At(signCache[closesOf(marketData.candles3m)], i)

goldenAt(i) == signAt(i - 1) <= 0 /\ signAt(i) > 0
deadAt(i) == signAt(i - 1) >= 0 /\ signAt(i) < 0

scanWindow ==
    Max(1, Len(marketData.candles3m) - SCAN_WINDOW)..(Len(marketData.candles3m) - 1)

recordedAt(i, kind) ==
    \E j \in 1..Len(analysis.crosses) :
        analysis.crosses[j].index = i /\ analysis.crosses[j].type = kind

\* C28: over the indices max(1, length - 50) .. length - 1 of the short
\* timeframe, a Golden event is recorded at index i exactly when
\* fast[i-1] <= slow[i-1] and fast[i] > slow[i], and a Dead event exactly when
\* fast[i-1] >= slow[i-1] and fast[i] < slow[i]; the events lie inside that
\* window and their indices increase strictly, so that no index carries two
\* events.
C28_ScanRecordsCrossings ==
    scanDone =>
        /\ \A i \in scanWindow :
            /\ recordedAt(i, "GOLDEN") <=> goldenAt(i)
            /\ recordedAt(i, "DEAD") <=> deadAt(i)
        /\ \A j \in 1..Len(analysis.crosses) :
            analysis.crosses[j].index \in scanWindow
        /\ \A j \in 1..(Len(analysis.crosses) - 1) :
            analysis.crosses[j].index < analysis.crosses[j + 1].index

\* C28 witness: the averages cross at one index of the window, from equal to
\* fast below slow, and the scan holds one event, a Dead one at that index
C28_SingleCrossingOneEvent ==
    /\ scanDone
    /\ Cardinality({ i \in scanWindow : goldenAt(i) \/ deadAt(i) }) = 1
    /\ Len(analysis.crosses) = 1
    /\ analysis.crosses[1].type = "DEAD"
    /\ signAt(analysis.crosses[1].index - 1) = 0

-----------------------------------------------------------------------------
(* calcEMA on its own: one call on a short series of prices, each 98.00,   *)
(* 100.00 or 102.00, the empty series included, with a period of 1, 5, 15  *)
(* or 60.                                                                  *)

MaxSeries == 3      \* prices in the series

EmaLevels == {9800, 10000, 10200}

EmaSeries == UNION { [1..n -> EmaLevels] : n \in 0..MaxSeries }

EmaPeriods == {1, 5, FAST, SLOW}

InitEma ==
    /\ marketData = NULL /\ accountData = NULL
    /\ analysis = NULL /\ mgmtAction = NULL /\ decision = NULL
    /\ ClientIdle
    /\ emaCall \in { [prices |-> p, period |-> n] : p \in EmaSeries, n \in EmaPeriods }
    /\ emaResult = NULL

CalcEma ==
    /\ emaCall # NULL
    /\ emaResult = NULL
    /\ emaResult' = [emaArray |-> calcEMA(doublesOf(emaCall.prices), emaCall.period)]
    /\ UNCHANGED <<decisionVars, clientVars, emaCall>>

SpecEma == InitEma /\ [][CalcEma]_vars

\* C29: calcEMA returns a series of the length of its input, whose first
\* value is the first input value; on the empty series it returns the empty
\* series.
C29_LengthAndSeed ==
    emaResult # NULL =>
        /\ Len(emaResult.emaArray) = Len(emaCall.prices)
        /\ Len(emaCall.prices) > 0 => emaResult.emaArray[1] = parseFloatOf(emaCall.prices[1])
        /\ emaCall.prices = <<>> => emaResult.emaArray = <<>>

\* C29 witness: a call on three prices has returned three values, the first
\* of them the first price and the second one not the second price
C29_SeededSeries ==
    /\ emaResult # NULL
    /\ Len(emaCall.prices) = 3
    /\ Len(emaResult.emaArray) = 3
    /\ emaResult.emaArray[1] = parseFloatOf(emaCall.prices[1])
    /\ emaResult.emaArray[2] # parseFloatOf(emaCall.prices[2])

\* the series holds one value throughout
isConstant(series) == \A i \in 1..Len(series) : series[i] = series[1]

\* C30: on a series whose elements all equal x, calcEMA returns x at every
\* index, whatever the period.
C30_ConstantSeriesReturned ==
    (emaResult # NULL /\ isConstant(emaCall.prices)) =>
        \A i \in 1..Len(emaResult.emaArray) : emaResult.emaArray[i] = parseFloatOf(emaCall.prices[1])

-----------------------------------------------------------------------------
(* The side of the estimated mark price: aiService.ts 151-155, 184-199.    *)

breakevenProposed == mgmtAction # NULL /\ mgmtAction.reason = "BREAKEVEN"

\* C31: a breakeven stop is proposed only for a position in profit, for
\* short as for long: whenever the manager proposes the entry as the new
\* stop, the position's unrealized PnL is positive.
C31_BreakevenOnlyInProfit ==
    (decided /\ hasTracked /\ breakevenProposed) => tracked.upl > 0

\* the long side alone: a breakeven proposal for a long has positive PnL
C31_LongBreakevenInProfit ==
    (decided /\ hasTracked /\ breakevenProposed /\ tracked.posSide = "long")
        => tracked.upl > 0

\* the short side as the code has it: a breakeven proposal for a short has
\* negative PnL
C31_ShortBreakevenAtLoss ==
    (decided /\ hasTracked /\ breakevenProposed /\ tracked.posSide = "short")
        => tracked.upl < 0

-----------------------------------------------------------------------------
(* The direction of a stop update: aiService.ts 164-205, 231-235.          *)

updateEmitted == decided /\ hasTracked /\ decision.action = "UPDATE_TPSL"

\* C32: stops only ratchet: the stop of every UpdateStopTakeProfit
\* instruction is strictly above the current stop of a long position and
\* strictly below the current stop of a short position, or positive when
\* the position carries no stop; no such instruction is emitted for a
\* position that is neither long nor short.
C32_StopsOnlyRatchet ==
    updateEmitted =>
        /\ tracked.posSide \in {"long", "short"}
        /\ decision.stop_loss > 0
        /\ (tracked.posSide = "long" /\ tracked.slTriggerPx # <<>>)
               => decision.stop_loss > tracked.slTriggerPx[1]
        /\ (tracked.posSide = "short" /\ tracked.slTriggerPx # <<>>)
               => decision.stop_loss < tracked.slTriggerPx[1]

\* C32 witness: a long whose stop is already above its entry is given a
\* higher stop, by trailing
C32_LongStopRaised ==
    /\ updateEmitted
    /\ tracked.posSide = "long"
    /\ tracked.slTriggerPx # <<>>
    /\ toMicro(tracked.slTriggerPx[1]) > tracked.avgPx
    /\ mgmtAction.reason = "TRAILING"
    /\ decision.stop_loss > tracked.slTriggerPx[1]

-----------------------------------------------------------------------------
(* executeOrder on the instructions that are no trade: part_000 204-232.   *)

tradeCalls ==
    { i \in 1..Len(calls) :
        calls[i].path \in {"/api/v5/account/set-leverage", "/api/v5/trade/order"} }

\* C33: a live executeOrder on an instruction whose action is Hold or
\* UpdateStopTakeProfit issues no set-leverage request and no place-order
\* request.
C33_NoTradeOnHoldOrUpdate ==
    (liveCall("executeOrder") /\ invocation.order.action \in {"HOLD", "UPDATE_TPSL"})
        => tradeCalls = {}

\* the instructions that are neither Buy nor Close take the Sell path: their
\* set-leverage and place-order requests are those of a short sell
C33_OtherActionsSellShort ==
    (liveCall("executeOrder") /\ invocation.order.action \notin {"BUY", "CLOSE"}) =>
        \A i \in tradeCalls :
            /\ calls[i].body.posSide = "short"
            /\ calls[i].path = "/api/v5/trade/order" => calls[i].body.side = "sell"

\* a live Hold has ended with a market sell order accepted by the exchange
C33_HoldSoldShort ==
    /\ liveCall("executeOrder") /\ invocation.order.action = "HOLD"
    /\ finished /\ outcome.kind = "return"
    /\ \E i \in orderCalls : calls[i].body.side = "sell" /\ calls[i].resp.kind = "ok"

-----------------------------------------------------------------------------
(* updatePositionTPSL between its cancellation and its replacement order:  *)
(* part_000 288-333.                                                       *)

algoChanges ==
    { i \in 1..Len(calls) :
        /\ calls[i].path \in {"/api/v5/trade/cancel-algos", "/api/v5/trade/order-algo"}
        /\ calls[i].resp.applied }

updateFailed ==
    liveCall("updatePositionTPSL") /\ finished /\ outcome.kind = "throw"

\* the pending orders of the invocation's instrument and side
pendingOfSide ==
    SelectSeq(exchange.algos,
              LAMBDA o : o.instId = invocation.instId /\ o.posSide = invocation.posSide)

\* C34: an updatePositionTPSL that ends in failure leaves the pending
\* stop/take-profit orders as they were: none of its cancel-algos and
\* order-algo requests has been applied by the exchange.
C34_FailureLeavesOrders ==
    updateFailed => algoChanges = {}

\* the failure that follows a rejected replacement order, after the
\* cancellation was applied: the position's side has no pending order left
C34_CancelledThenRejected ==
    /\ updateFailed
    /\ \E i \in 1..Len(calls) :
        /\ calls[i].path = "/api/v5/trade/cancel-algos" /\ calls[i].resp.kind = "ok"
    /\ \E i \in 1..Len(calls) :
        /\ calls[i].path = "/api/v5/trade/order-algo" /\ calls[i].resp.kind = "rejected"
    /\ pendingOfSide = <<>>

updateSucceeded ==
    /\ liveCall("updatePositionTPSL") /\ finished /\ outcome.kind = "return"
    /\ ~nothingNew(invocation)

\* C35: after updatePositionTPSL returns success with a stop or take-profit
\* price supplied, the only pending conditional order of the instrument and
\* side is the newly submitted one.
C35_OnlyNewOrderPending ==
    updateSucceeded => pendingOfSide = <<placedAlgo(algoBody(invocation))>>

\* the same when the pending-algo query and the cancel-algos request were
\* both answered with code "0"
C35_OnlyNewOrderWhenAnswered ==
    (/\ updateSucceeded
     /\ calls[1].resp.kind = "ok"
     /\ \A i \in 1..Len(calls) :
            calls[i].path = "/api/v5/trade/cancel-algos" => calls[i].resp.kind = "ok")
        => pendingOfSide = <<placedAlgo(algoBody(invocation))>>

\* a success after a failed pending-algo query: the older stop is pending
\* next to the new one
C35_OldStopSurvives ==
    /\ updateSucceeded
    /\ calls[1].resp.kind # "ok"
    /\ Len(pendingOfSide) = 2
    /\ pendingOfSide[1].algoId # 9

-----------------------------------------------------------------------------
(* The order of the events of one scan: aiService.ts 67-83, 104-106.       *)

\* C36: within one scan consecutive cross events alternate in kind: no
\* Golden event is directly followed by a Golden event and no Dead event by
\* a Dead event.
C36_EventsAlternate ==
    scanDone =>
        \A j \in 1..(Len(analysis.crosses) - 1) :
            analysis.crosses[j].type # analysis.crosses[j + 1].type

\* two events of one kind follow each other only across an index at which
\* the two averages are equal
C36_RepeatOnlyAcrossEquality ==
    scanDone =>
        \A j \in 1..(Len(analysis.crosses) - 1) :
            analysis.crosses[j].type = analysis.crosses[j + 1].type =>
                \E i \in (analysis.crosses[j].index + 1)..(analysis.crosses[j + 1].index - 1) :
                    signAt(i) = 0

\* the scan of the closes ..., 101.23, 101.33, 98.62, 102.00, 102.00: Dead at
\* 53, Golden at 55 and Golden at 58, the averages being equal at 57; the
\* entry rule reads the pair Golden, Golden and the cycle is Hold
C36_GoldenAfterGolden ==
    /\ scanDone
    /\ Len(analysis.crosses) = 3
    /\ analysis.crosses[1].type = "DEAD" /\ analysis.crosses[1].index = 53
    /\ analysis.crosses[2].type = "GOLDEN" /\ analysis.crosses[2].index = 55
    /\ analysis.crosses[3].type = "GOLDEN" /\ analysis.crosses[3].index = 58
    /\ signAt(57) = 0
    /\ decision.action = "HOLD"

-----------------------------------------------------------------------------
(* A position in net mode: aiService.ts 90-104, 164-205.                   *)

netTracked == hasTracked /\ tracked.posSide = "net"

\* C37: for a tracked position whose side is neither long nor short, with
\* at least 60 candles on both timeframes, every cycle emits Hold with no
\* stop proposal and size 0: no reversal Close, no entry and no stop
\* update, whatever the trend and the prices.
C37_NetPositionHolds ==
    (scanDone /\ netTracked) =>
        /\ analysis.action = "HOLD"
        /\ mgmtAction = NULL
        /\ decision.action = "HOLD"
        /\ decision.size = 0

\* C37 witness: a net position in a downtrend, where a long would be
\* closed, with a stop below the entry and the mark price more than 0.5%
\* above it, where a long would be moved to breakeven: Hold
C37_NetInDowntrendHolds ==
    /\ scanDone /\ netTracked
    /\ ~analysis.isUpTrend
    /\ tracked.upl = 6 /\ tracked.slTriggerPx = <<9000>>
    /\ Len(analysis.crosses) >= 2
    /\ decision.action = "HOLD"

-----------------------------------------------------------------------------
(* The side of an entry's stop: aiService.ts 112-139, 237-253.             *)

\* C38: the stop-loss of every Buy instruction is strictly below the entry
\* price used for sizing, the ticker's last traded price, and the stop-loss
\* of every Sell instruction is strictly above it.
C38_StopOnLosingSide ==
    (decided /\ isEntry) =>
        /\ decision.action = "BUY" => decision.stop_loss < entryOfCycle
        /\ decision.action = "SELL" => decision.stop_loss > entryOfCycle

\* a Buy sized from a last price below its stop: the sizer takes the
\* distance 97.88 - 87.88 as the adverse one
C38_BuyStopAboveLast ==
    /\ decided /\ decision.action = "BUY"
    /\ marketData.ticker # <<>>
    /\ entryOfCycle = 8788 /\ decision.stop_loss = 9788
    /\ decision.size > 0

\* a Buy sized without a ticker: the entry price is 0 and the stop is above
\* it, whatever the market
C38_BuyWithoutTicker ==
    /\ decided /\ decision.action = "BUY"
    /\ marketData.ticker = <<>>
    /\ decision.stop_loss > 0

\* a Sell sized from a last price above its stop
C38_SellStopBelowLast ==
    /\ decided /\ decision.action = "SELL"
    /\ marketData.ticker # <<>>
    /\ entryOfCycle = 10788 /\ decision.stop_loss = 10218
    /\ decision.size > 0

====
